---- MODULE Spec2Model ----
(***************************************************************************)
(* convex-angular: the call-state machine shared by injectMutation and     *)
(* injectAction (createCallableProvider), the live-query manager           *)
(* (injectQuery), the paginated-query manager (injectPaginatedQuery) and   *)
(* the auth bridge (ConvexAuthSyncService / injectAuth).                   *)
(*                                                                         *)
(* Each component has its own next-state relation and specification; the   *)
(* components share no state, so a specification leaves the variables of   *)
(* the other components unchanged.                                         *)
(***************************************************************************)
EXTENDS Integers, Sequences, FiniteSets, TLC

VARIABLES
  call,         \* createCallableProvider: the signals data, error, isLoading, hasCompleted
  callOptions,  \* createCallableProvider: the callbacks the caller passes as options
  calls,        \* per execute() call: phase, the returned promise, callback counts
  callLast,     \* observation: the operation that ran last on the call state, and for
                \* a settlement whether the status was idle just before it
  query,        \* injectQuery: the signals rawData, error, isLoading, isSkipped, refetchVersion
  queryIn,      \* injectQuery: what argsFn() and options.enabled() return
  queryEffect,  \* injectQuery: the effect (scheduled, registered cleanup, destroyed)
  onUpdate,     \* convex.onUpdate: open subscriptions, subscribe and unsubscribe counts
  queryLast,    \* observation: the operation that ran last on the query manager
  skipToggles,  \* observation: the skip toggles the inputs of injectQuery went through
  localQueryResult, \* convex.client.localQueryResult for the query and its current arguments
  pag,          \* injectPaginatedQuery: the signals, resetVersion and currentLoadMore
  pagIn,        \* injectPaginatedQuery: what argsFn() and optionsFn() return
  pagEffect,    \* injectPaginatedQuery: the effect (scheduled, registered cleanup, destroyed)
  onPaginatedUpdate, \* convex.onPaginatedUpdate_experimental: subscriptions and counts
  pagLast,      \* observation: the operation that ran last on the paginated manager
  sync,         \* ConvexAuthSyncService: the signals isConvexAuthenticated and error
  authConfig,   \* CONVEX_AUTH_CONFIG: the provider's signals isLoading, isAuthenticated
  authEffect,   \* ConvexAuthSyncService: the effect (scheduled, cleanup registered, destroyed)
  convexAuth,   \* the Convex client's auth: registration, hasAuth(), setAuth/clearAuth counts
  authLast,     \* observation: the operation that ran last on the auth bridge
  authScope,    \* the injector: injectAuth() calls made, ConvexAuthSyncService instances
  guard,        \* convexAuthGuard: one canActivate call, its status observer and result
  clerk         \* provideClerkAuth: the ClerkAuthProvider signals, orgVersion, its effect

callVars == <<call, callOptions, calls, callLast>>

queryVars ==
  <<query, queryIn, queryEffect, onUpdate, queryLast, skipToggles, localQueryResult>>

pagVars == <<pag, pagIn, pagEffect, onPaginatedUpdate, pagLast>>

authVars == <<sync, authConfig, authEffect, convexAuth, authLast, authScope, guard, clerk>>

(***************************************************************************)
(* Values                                                                  *)
(***************************************************************************)

\* JavaScript's undefined
Undef == "undefined"

\* the results a backend call or query can deliver
Values == {"first", "second"}

\* Error objects, named by their message
ErrorObjects ==
  {"Error(fail)", "Error(oops)", "Error(onSuccess threw)", "Error(onError threw)"}

\* what a promise can reject with / a function can throw: an Error object or
\* a value that is no Error (here the string 'oops')
RejectValues == {"Error(fail)", "oops"}

\* what a throwing onSuccess / onError callback throws
OnSuccessThrown == "Error(onSuccess threw)"

OnErrorThrown == "Error(onError threw)"

(***************************************************************************)
(* createCallableProvider                                                  *)
(***************************************************************************)

\* number of execute() calls issued in one behaviour
MaxCalls == 3

CallIds == 1..MaxCalls

CallbackKinds == {"none", "returns", "throws"}

\* err instanceof Error ? err : new Error(String(err))
ToError(err) ==
  IF err \in ErrorObjects THEN err ELSE "Error(" \o err \o ")"

CallIdle == [data |-> Undef, error |-> Undef, isLoading |-> FALSE, hasCompleted |-> FALSE]

\* computed: isSuccess, isError, status
CallIsSuccess(s) == s.hasCompleted /\ ~s.isLoading /\ s.error = Undef

CallIsError(s) == s.error # Undef

CallStatus(s) ==
  IF s.isLoading THEN "pending"
  ELSE IF s.error # Undef THEN "error"
  ELSE IF s.hasCompleted THEN "success"
  ELSE "idle"

\* the statements of execute() before `await fn()`
ExecuteKeepsState(s) == [s EXCEPT !.isLoading = TRUE]

ExecuteBegin(s) ==
  [s EXCEPT !.data = Undef, !.error = Undef, !.hasCompleted = FALSE, !.isLoading = TRUE]

\* the statements of the try block after `await fn()` resolved, up to onSuccess
ExecuteResolvedClearsError(s, result) ==
  [s EXCEPT !.data = result, !.error = Undef, !.hasCompleted = TRUE]

ExecuteResolved(s, result) == [s EXCEPT !.data = result, !.hasCompleted = TRUE]

\* the catch block: the state it leaves and what it throws
ExecuteCatchSwallows(s, err) ==
  [ state  |-> [s EXCEPT !.error = ToError(err), !.hasCompleted = TRUE],
    thrown |-> Undef ]

ExecuteCatch(s, err) ==
  [ state  |-> [s EXCEPT !.error = ToError(err), !.hasCompleted = TRUE],
    thrown |-> IF callOptions.onError = "throws" THEN OnErrorThrown ELSE ToError(err) ]

\* the finally block
ExecuteFinallyKeepsLoading(s) == s

ExecuteFinally(s) == [s EXCEPT !.isLoading = FALSE]

\* a call's record: phase of fn's promise, what fn settled with, the promise
\* execute() returned, and how often each callback ran for the call
\* (execute() reads options.onSuccess and options.onError only: a callback
\* passed as options.onSettled is never called)
NoCall ==
  [ phase |-> "unissued", settled |-> Undef,
    promise |-> [state |-> "none", value |-> Undef],
    onSuccess |-> 0, onError |-> 0, onSettled |-> 0 ]

Issued == {i \in CallIds : calls[i].phase # "unissued"}

InFlight == {i \in CallIds : calls[i].phase = "inflight"}

NextCallId == Cardinality(Issued) + 1

OnErrorCount == IF callOptions.onError = "none" THEN 0 ELSE 1

OnSuccessCount == IF callOptions.onSuccess = "none" THEN 0 ELSE 1

\* the promise of an async function whose catch block ended by throwing
\* caught.thrown (or, had it returned, by resolving with undefined)
PromiseAfterCatch(caught) ==
  IF caught.thrown = Undef
    THEN [state |-> "resolved", value |-> Undef]
    ELSE [state |-> "rejected", value |-> caught.thrown]

CallInit ==
  /\ call = CallIdle
  /\ callOptions \in [ onSuccess : CallbackKinds, onError : CallbackKinds,
                       onSettled : {"none", "returns"} ]
  /\ calls = [i \in CallIds |-> NoCall]
  /\ callLast = [op |-> "init", id |-> 0, idleBefore |-> FALSE]

\* execute(fn) with fn returning a promise: runs up to `await fn()`
Execute ==
  /\ NextCallId \in CallIds
  /\ call' = ExecuteBegin(call)
  /\ calls' = [calls EXCEPT ![NextCallId] =
                 [NoCall EXCEPT !.phase = "inflight", !.promise.state = "pending"]]
  /\ callLast' = [op |-> "execute", id |-> NextCallId, idleBefore |-> FALSE]
  /\ UNCHANGED callOptions

\* execute(fn) with fn throwing before it returns a promise: try, catch and
\* finally all run inside the call
ExecuteThrows ==
  /\ NextCallId \in CallIds
  /\ \E err \in RejectValues :
       LET caught == ExecuteCatch(ExecuteBegin(call), err) IN
       /\ call' = ExecuteFinally(caught.state)
       /\ calls' = [calls EXCEPT ![NextCallId] =
                      [ phase |-> "threw", settled |-> err,
                        promise |-> PromiseAfterCatch(caught),
                        onSuccess |-> 0, onError |-> OnErrorCount, onSettled |-> 0 ]]
  /\ callLast' = [op |-> "executeThrows", id |-> NextCallId, idleBefore |-> FALSE]
  /\ UNCHANGED callOptions

\* the promise of call i resolves with result: rest of the try block, then
\* (when onSuccess throws) the catch block, then finally
SettleResolve ==
  \E i \in InFlight, result \in Values :
    LET s1 == ExecuteResolved(call, result) IN
    /\ IF callOptions.onSuccess = "throws"
         THEN LET caught == ExecuteCatch(s1, OnSuccessThrown) IN
              /\ call' = ExecuteFinally(caught.state)
              /\ calls' = [calls EXCEPT ![i] =
                             [ phase |-> "resolved", settled |-> result,
                               promise |-> PromiseAfterCatch(caught),
                               onSuccess |-> calls[i].onSuccess + 1,
                               onError |-> calls[i].onError + OnErrorCount,
                               onSettled |-> calls[i].onSettled ]]
         ELSE /\ call' = ExecuteFinally(s1)
              /\ calls' = [calls EXCEPT ![i] =
                             [ phase |-> "resolved", settled |-> result,
                               promise |-> [state |-> "resolved", value |-> result],
                               onSuccess |-> calls[i].onSuccess + OnSuccessCount,
                               onError |-> calls[i].onError,
                               onSettled |-> calls[i].onSettled ]]
    /\ callLast' = [op |-> "resolve", id |-> i,
                    idleBefore |-> CallStatus(call) = "idle"]
    /\ UNCHANGED callOptions

\* the promise of call i rejects with err: catch, then finally
SettleReject ==
  \E i \in InFlight, err \in RejectValues :
    LET caught == ExecuteCatch(call, err) IN
    /\ call' = ExecuteFinally(caught.state)
    /\ calls' = [calls EXCEPT ![i] =
                   [ phase |-> "rejected", settled |-> err,
                     promise |-> PromiseAfterCatch(caught),
                     onSuccess |-> calls[i].onSuccess,
                     onError |-> calls[i].onError + OnErrorCount,
                     onSettled |-> calls[i].onSettled ]]
    /\ callLast' = [op |-> "reject", id |-> i,
                    idleBefore |-> CallStatus(call) = "idle"]
    /\ UNCHANGED callOptions

\* reset()
CallResetKeepsCompleted ==
  /\ call' = [CallIdle EXCEPT !.hasCompleted = call.hasCompleted]
  /\ callLast' = [op |-> "reset", id |-> 0, idleBefore |-> FALSE]
  /\ UNCHANGED <<callOptions, calls>>

CallReset ==
  /\ call' = CallIdle
  /\ callLast' = [op |-> "reset", id |-> 0, idleBefore |-> FALSE]
  /\ UNCHANGED <<callOptions, calls>>

(***************************************************************************)
(* injectMutation: mutate() keeps its own copy of the call state machine   *)
(* (injectAction's run() is the same text around convex.action)            *)
(***************************************************************************)

\* the statements of mutate() before `await convex.mutation(...)`
MutateBegin(s) ==
  [s EXCEPT !.data = Undef, !.error = Undef, !.hasCompleted = FALSE, !.isLoading = TRUE]

\* the statements of the try block after the await, up to onSuccess
MutateResolved(s, result) == [s EXCEPT !.data = result, !.hasCompleted = TRUE]

\* the catch block: the state it leaves and what it throws; it ends with
\* `return undefined`, so it throws only what onError throws
MutateCatch(s, err) ==
  [ state  |-> [s EXCEPT !.error = ToError(err), !.hasCompleted = TRUE],
    thrown |-> IF callOptions.onError = "throws" THEN OnErrorThrown ELSE Undef ]

\* the finally block
MutateFinally(s) == [s EXCEPT !.isLoading = FALSE]

\* mutate(args): runs up to the await
Mutate ==
  /\ NextCallId \in CallIds
  /\ call' = MutateBegin(call)
  /\ calls' = [calls EXCEPT ![NextCallId] =
                 [NoCall EXCEPT !.phase = "inflight", !.promise.state = "pending"]]
  /\ callLast' = [op |-> "mutate", id |-> NextCallId, idleBefore |-> FALSE]
  /\ UNCHANGED callOptions

\* convex.mutation of call i resolves with result: rest of the try block,
\* then (when onSuccess throws) the catch block, then finally
MutateResolve ==
  \E i \in InFlight, result \in Values :
    LET s1 == MutateResolved(call, result) IN
    /\ IF callOptions.onSuccess = "throws"
         THEN LET caught == MutateCatch(s1, OnSuccessThrown) IN
              /\ call' = MutateFinally(caught.state)
              /\ calls' = [calls EXCEPT ![i] =
                             [ phase |-> "resolved", settled |-> result,
                               promise |-> PromiseAfterCatch(caught),
                               onSuccess |-> calls[i].onSuccess + 1,
                               onError |-> calls[i].onError + OnErrorCount,
                               onSettled |-> calls[i].onSettled ]]
         ELSE /\ call' = MutateFinally(s1)
              /\ calls' = [calls EXCEPT ![i] =
                             [ phase |-> "resolved", settled |-> result,
                               promise |-> [state |-> "resolved", value |-> result],
                               onSuccess |-> calls[i].onSuccess + OnSuccessCount,
                               onError |-> calls[i].onError,
                               onSettled |-> calls[i].onSettled ]]
    /\ callLast' = [op |-> "resolve", id |-> i,
                    idleBefore |-> CallStatus(call) = "idle"]
    /\ UNCHANGED callOptions

\* convex.mutation of call i rejects with err: catch, then finally
MutateReject ==
  \E i \in InFlight, err \in RejectValues :
    LET caught == MutateCatch(call, err) IN
    /\ call' = MutateFinally(caught.state)
    /\ calls' = [calls EXCEPT ![i] =
                   [ phase |-> "rejected", settled |-> err,
                     promise |-> PromiseAfterCatch(caught),
                     onSuccess |-> calls[i].onSuccess,
                     onError |-> calls[i].onError + OnErrorCount,
                     onSettled |-> calls[i].onSettled ]]
    /\ callLast' = [op |-> "reject", id |-> i,
                    idleBefore |-> CallStatus(call) = "idle"]
    /\ UNCHANGED callOptions

\* reset() of injectMutation
MutateReset ==
  /\ call' = CallIdle
  /\ callLast' = [op |-> "reset", id |-> 0, idleBefore |-> FALSE]
  /\ UNCHANGED <<callOptions, calls>>

(***************************************************************************)
(* injectQuery                                                             *)
(***************************************************************************)

\* number of subscriptions one manager opens in one behaviour
MaxSubs == 3

\* number of refetch() calls in one behaviour
MaxRefetch == 2

SkipToken == "skipToken"

\* the argument values argsFn() returns besides skipToken
QueryArgs == {"argsA", "argsB"}

\* the errors a subscription reports
SubErrors == {"Error(fail)"}

\* signals at construction; initialData is options.initialData
QueryInitial(initialData) ==
  [ rawData |-> initialData, error |-> Undef, isLoading |-> TRUE,
    isSkipped |-> FALSE, refetchVersion |-> 0 ]

\* computed: isSuccess, isError, status
QueryIsSuccess(q) == ~q.isLoading /\ ~q.isSkipped /\ q.error = Undef

QueryIsError(q) == q.error # Undef

QueryStatus(q) ==
  IF q.isSkipped THEN "skipped"
  ELSE IF q.isLoading THEN "pending"
  ELSE IF q.error # Undef THEN "error"
  ELSE "success"

\* args === skipToken || !isEnabled
QuerySkips(in) == in.args = SkipToken \/ ~in.enabled

\* the skip branch of the effect
QuerySkipKeepsData(q) ==
  [q EXCEPT !.error = Undef, !.isLoading = FALSE, !.isSkipped = TRUE]

QuerySkip(q) ==
  [q EXCEPT !.rawData = Undef, !.error = Undef, !.isLoading = FALSE, !.isSkipped = TRUE]

\* the subscribing branch up to convex.onUpdate: cached is what
\* convex.client.localQueryResult returns
QueryBeginDropsData(q, cached) ==
  [q EXCEPT !.isSkipped = FALSE, !.isLoading = TRUE, !.rawData = cached]

QueryBegin(q, cached) ==
  [q EXCEPT !.isSkipped = FALSE, !.isLoading = TRUE,
            !.rawData = IF q.rawData = Undef /\ cached # Undef THEN cached ELSE @]

\* the data callback passed to convex.onUpdate
QueryOnDataKeepsError(q, result) ==
  [q EXCEPT !.rawData = result, !.isLoading = FALSE]

QueryOnData(q, result) ==
  [q EXCEPT !.rawData = result, !.error = Undef, !.isLoading = FALSE]

\* the error callback passed to convex.onUpdate
QueryOnErrorClearsData(q, err) ==
  [q EXCEPT !.rawData = Undef, !.error = err, !.isLoading = FALSE]

QueryOnError(q, err) == [q EXCEPT !.error = err, !.isLoading = FALSE]

\* the cleanup the previous effect run registered (none: 0) runs: unsub()
CleanupForgets(subs, registered) == subs

Cleanup(subs, registered) ==
  IF registered = 0 THEN subs
  ELSE [subs EXCEPT !.open = @ \ {registered}, !.unsubscribed = @ + 1]

\* convex.onUpdate(query, args, ...): opens the next subscription; args
\* records the arguments of the latest call
Subscribe(subs, args) ==
  [subs EXCEPT !.open = @ \cup {subs.subscribed + 1}, !.subscribed = @ + 1,
               !.args = args]

NoSubs == [open |-> {}, subscribed |-> 0, unsubscribed |-> 0, args |-> Undef]

\* the record of the skip toggles of the effect's inputs: pure while the
\* manager started skipped (the first run of the effect took the skip branch)
\* and nothing but skip toggles happened to it since that first run, off
\* and on count the toggles from skip to subscribing and back (up to
\* MaxSubs + 1), coalesced tells that a toggle happened while a run of the
\* effect was still scheduled
NoToggles(in) == [pure |-> QuerySkips(in), off |-> 0, on |-> 0, coalesced |-> FALSE]

CountToggle(n) == IF n > MaxSubs THEN n ELSE n + 1

\* what a step of the manager adds to the record
ObserveToggles ==
  skipToggles' =
    IF ~skipToggles.pure THEN skipToggles
    ELSE IF queryIn' # queryIn /\ ~query.isSkipped /\ onUpdate.subscribed = 0
      THEN [pure |-> FALSE, off |-> 0, on |-> 0, coalesced |-> FALSE]
    ELSE IF QuerySkips(queryIn) /\ ~QuerySkips(queryIn')
      THEN [skipToggles EXCEPT !.off = CountToggle(@),
                               !.coalesced = @ \/ queryEffect.dirty]
    ELSE IF ~QuerySkips(queryIn) /\ QuerySkips(queryIn')
      THEN [skipToggles EXCEPT !.on = CountToggle(@),
                               !.coalesced = @ \/ queryEffect.dirty]
    ELSE IF \/ queryIn' # queryIn
            \/ query'.refetchVersion # query.refetchVersion
            \/ queryEffect'.destroyed
      THEN [pure |-> FALSE, off |-> 0, on |-> 0, coalesced |-> FALSE]
    ELSE skipToggles

QueryInit ==
  /\ \E initialData \in {Undef, "first"} : query = QueryInitial(initialData)
  /\ queryIn \in [args : QueryArgs \cup {SkipToken}, enabled : BOOLEAN]
  /\ queryEffect = [dirty |-> TRUE, cleanup |-> 0, destroyed |-> FALSE]
  /\ onUpdate = NoSubs
  /\ queryLast = "init"
  /\ skipToggles = NoToggles(queryIn)
  /\ localQueryResult \in {Undef} \cup Values

\* a signal read by argsFn changes
QuerySetArgs ==
  /\ \E a \in (QueryArgs \cup {SkipToken}) \ {queryIn.args} :
       queryIn' = [queryIn EXCEPT !.args = a]
  /\ queryEffect' = [queryEffect EXCEPT !.dirty = TRUE]
  /\ queryLast' = "setArgs"
  /\ UNCHANGED <<query, onUpdate>>

\* a signal read by options.enabled changes
QuerySetEnabled ==
  /\ queryIn' = [queryIn EXCEPT !.enabled = ~@]
  /\ queryEffect' = [queryEffect EXCEPT !.dirty = TRUE]
  /\ queryLast' = "setEnabled"
  /\ UNCHANGED <<query, onUpdate>>

\* refetch()
QueryRefetch ==
  /\ query.refetchVersion < MaxRefetch
  /\ query' = [query EXCEPT !.refetchVersion = @ + 1]
  /\ queryEffect' = [queryEffect EXCEPT !.dirty = TRUE]
  /\ queryLast' = "refetch"
  /\ UNCHANGED <<queryIn, onUpdate>>

\* the scheduled effect runs and takes the skip branch: the cleanup of the
\* previous run, then the body
QueryEffectSkipKeepsSubscription ==
  /\ queryEffect.dirty /\ ~queryEffect.destroyed
  /\ QuerySkips(queryIn)
  /\ query' = QuerySkip(query)
  /\ queryEffect' = [queryEffect EXCEPT !.dirty = FALSE]
  /\ queryLast' = "effectSkip"
  /\ UNCHANGED <<queryIn, onUpdate>>

QueryEffectSkip ==
  /\ queryEffect.dirty /\ ~queryEffect.destroyed
  /\ QuerySkips(queryIn)
  /\ onUpdate' = Cleanup(onUpdate, queryEffect.cleanup)
  /\ query' = QuerySkip(query)
  /\ queryEffect' = [queryEffect EXCEPT !.dirty = FALSE, !.cleanup = 0]
  /\ queryLast' = "effectSkip"
  /\ UNCHANGED queryIn

\* the scheduled effect runs and subscribes: the cleanup of the previous
\* run, then the body, which registers unsub as the cleanup of this run
QueryEffectSubscribe ==
  /\ queryEffect.dirty /\ ~queryEffect.destroyed
  /\ ~QuerySkips(queryIn)
  /\ onUpdate.subscribed < MaxSubs
  /\ query' = QueryBegin(query, localQueryResult)
  /\ onUpdate' = Subscribe(Cleanup(onUpdate, queryEffect.cleanup), queryIn.args)
  /\ queryEffect' = [queryEffect EXCEPT !.dirty = FALSE, !.cleanup = onUpdate'.subscribed]
  /\ queryLast' = "effectSubscribe"
  /\ UNCHANGED queryIn

\* the client's local cache comes to hold another result, or none, for the
\* query and its current arguments
QueryCacheChange ==
  /\ ~queryEffect.destroyed
  /\ \E cached \in ({Undef} \cup Values) \ {localQueryResult} :
       localQueryResult' = cached
  /\ queryLast' = "cacheChange"
  /\ UNCHANGED <<query, queryIn, queryEffect, onUpdate>>

\* the backend delivers a result to an open subscription
QueryData ==
  /\ onUpdate.open # {}
  /\ \E result \in Values : query' = QueryOnData(query, result)
  /\ queryLast' = "data"
  /\ UNCHANGED <<queryIn, queryEffect, onUpdate>>

\* the backend reports an error to an open subscription
QueryError ==
  /\ onUpdate.open # {}
  /\ \E err \in SubErrors : query' = QueryOnError(query, err)
  /\ queryLast' = "error"
  /\ UNCHANGED <<queryIn, queryEffect, onUpdate>>

\* the subscriptions that have been torn down
Closed(subs) == (1..subs.subscribed) \ subs.open

\* the data callback of a torn-down subscription is called all the same
QueryStaleDataDropped ==
  /\ Closed(onUpdate) # {}
  /\ queryLast' = "staleData"
  /\ UNCHANGED <<query, queryIn, queryEffect, onUpdate>>

QueryStaleData ==
  /\ Closed(onUpdate) # {}
  /\ \E result \in Values : query' = QueryOnData(query, result)
  /\ queryLast' = "staleData"
  /\ UNCHANGED <<queryIn, queryEffect, onUpdate>>

\* the error callback of a torn-down subscription is called all the same
QueryStaleError ==
  /\ Closed(onUpdate) # {}
  /\ \E err \in SubErrors : query' = QueryOnError(query, err)
  /\ queryLast' = "staleError"
  /\ UNCHANGED <<queryIn, queryEffect, onUpdate>>

\* the injection context is destroyed: the effect is destroyed and the
\* cleanup of its last run runs
QueryDestroyForgets ==
  /\ ~queryEffect.destroyed
  /\ queryEffect' = [queryEffect EXCEPT !.destroyed = TRUE, !.cleanup = 0]
  /\ queryLast' = "destroy"
  /\ UNCHANGED <<query, queryIn, onUpdate>>

QueryDestroy ==
  /\ ~queryEffect.destroyed
  /\ onUpdate' = Cleanup(onUpdate, queryEffect.cleanup)
  /\ queryEffect' = [queryEffect EXCEPT !.destroyed = TRUE, !.cleanup = 0]
  /\ queryLast' = "destroy"
  /\ UNCHANGED <<query, queryIn>>

(***************************************************************************)
(* injectPaginatedQuery                                                    *)
(***************************************************************************)

\* number of reset() calls in one behaviour
MaxReset == 2

\* the result lists a page callback carries once the first page is loaded
PageResults == {<<>>, <<"A">>, <<"A", "B">>}

PageStatuses == {"LoadingFirstPage", "LoadingMore", "CanLoadMore", "Exhausted"}

\* signals and currentLoadMore at construction; currentLoadMore is the
\* subscription whose page callback bound it (undefined: 0)
PagInitial ==
  [ results |-> <<>>, error |-> Undef, isLoadingFirstPage |-> TRUE,
    isLoadingMore |-> FALSE, canLoadMore |-> FALSE, isExhausted |-> FALSE,
    isSkipped |-> FALSE, currentLoadMore |-> 0, resetVersion |-> 0 ]

\* computed: isSuccess, isError, status
PagIsSuccess(p) == ~p.isLoadingFirstPage /\ ~p.isSkipped /\ p.error = Undef

PagIsError(p) == p.error # Undef

PagStatus(p) ==
  IF p.isSkipped THEN "skipped"
  ELSE IF p.isLoadingFirstPage THEN "pending"
  ELSE IF p.error # Undef THEN "error"
  ELSE "success"

\* resetState()
ResetStateKeepsResults(p) ==
  [p EXCEPT !.error = Undef, !.isLoadingFirstPage = TRUE,
            !.isLoadingMore = FALSE, !.canLoadMore = FALSE, !.isExhausted = FALSE,
            !.isSkipped = FALSE, !.currentLoadMore = 0]

ResetState(p) ==
  [p EXCEPT !.results = <<>>, !.error = Undef, !.isLoadingFirstPage = TRUE,
            !.isLoadingMore = FALSE, !.canLoadMore = FALSE, !.isExhausted = FALSE,
            !.isSkipped = FALSE, !.currentLoadMore = 0]

\* the skip branch of the effect
PagSkipKeepsLoading(p) == [ResetState(p) EXCEPT !.isSkipped = TRUE]

PagSkip(p) == [ResetState(p) EXCEPT !.isLoadingFirstPage = FALSE, !.isSkipped = TRUE]

\* the page callback of subscription sub, called with results and status
PagOnPageKeepsFlags(p, sub, results, status) ==
  [p EXCEPT !.currentLoadMore = sub, !.results = results, !.error = Undef,
            !.isLoadingFirstPage = @ \/ (status = "LoadingFirstPage"),
            !.isLoadingMore = @ \/ (status = "LoadingMore"),
            !.canLoadMore = @ \/ (status = "CanLoadMore"),
            !.isExhausted = @ \/ (status = "Exhausted")]

PagOnPage(p, sub, results, status) ==
  [p EXCEPT !.currentLoadMore = sub, !.results = results, !.error = Undef,
            !.isLoadingFirstPage = (status = "LoadingFirstPage"),
            !.isLoadingMore = (status = "LoadingMore"),
            !.canLoadMore = (status = "CanLoadMore"),
            !.isExhausted = (status = "Exhausted")]

\* the error callback
PagOnErrorClearsResults(p, err) ==
  [p EXCEPT !.results = <<>>, !.error = err, !.isLoadingFirstPage = FALSE,
            !.isLoadingMore = FALSE, !.canLoadMore = TRUE, !.isExhausted = FALSE]

PagOnError(p, err) ==
  [p EXCEPT !.error = err, !.isLoadingFirstPage = FALSE, !.isLoadingMore = FALSE,
            !.canLoadMore = TRUE, !.isExhausted = FALSE]

PagInit ==
  /\ pag = PagInitial
  /\ pagIn \in [args : QueryArgs \cup {SkipToken}, initialNumItems : {10, 20}]
  /\ pagEffect = [dirty |-> TRUE, cleanup |-> 0, destroyed |-> FALSE]
  /\ onPaginatedUpdate = NoSubs
  /\ pagLast = [op |-> "init", delegated |-> 0, status |-> Undef, failed |-> 0]

\* a signal read by argsFn changes
PagSetArgs ==
  /\ \E a \in (QueryArgs \cup {SkipToken}) \ {pagIn.args} :
       pagIn' = [pagIn EXCEPT !.args = a]
  /\ pagEffect' = [pagEffect EXCEPT !.dirty = TRUE]
  /\ pagLast' = [op |-> "setArgs", delegated |-> 0, status |-> Undef,
               failed |-> pagLast.failed]
  /\ UNCHANGED <<pag, onPaginatedUpdate>>

\* a signal read by optionsFn changes
PagSetOptions ==
  /\ \E n \in {10, 20} \ {pagIn.initialNumItems} :
       pagIn' = [pagIn EXCEPT !.initialNumItems = n]
  /\ pagEffect' = [pagEffect EXCEPT !.dirty = TRUE]
  /\ pagLast' = [op |-> "setOptions", delegated |-> 0, status |-> Undef,
               failed |-> pagLast.failed]
  /\ UNCHANGED <<pag, onPaginatedUpdate>>

\* reset()
PagReset ==
  /\ pag.resetVersion < MaxReset
  /\ pag' = [pag EXCEPT !.resetVersion = @ + 1]
  /\ pagEffect' = [pagEffect EXCEPT !.dirty = TRUE]
  /\ pagLast' = [op |-> "reset", delegated |-> 0, status |-> Undef,
               failed |-> pagLast.failed]
  /\ UNCHANGED <<pagIn, onPaginatedUpdate>>

\* the scheduled effect runs with skipToken: the cleanup of the previous
\* run, then the skip branch
PagEffectSkip ==
  /\ pagEffect.dirty /\ ~pagEffect.destroyed
  /\ pagIn.args = SkipToken
  /\ onPaginatedUpdate' = Cleanup(onPaginatedUpdate, pagEffect.cleanup)
  /\ pag' = PagSkip(pag)
  /\ pagEffect' = [pagEffect EXCEPT !.dirty = FALSE, !.cleanup = 0]
  /\ pagLast' = [op |-> "effectSkip", delegated |-> 0, status |-> Undef,
               failed |-> pagLast.failed]
  /\ UNCHANGED pagIn

\* the scheduled effect runs and subscribes: the cleanup of the previous
\* run, resetState(), then the subscription, whose unsub is registered as
\* the cleanup of this run
PagEffectSubscribe ==
  /\ pagEffect.dirty /\ ~pagEffect.destroyed
  /\ pagIn.args # SkipToken
  /\ onPaginatedUpdate.subscribed < MaxSubs
  /\ pag' = ResetState(pag)
  /\ onPaginatedUpdate' =
       Subscribe(Cleanup(onPaginatedUpdate, pagEffect.cleanup), pagIn.args)
  /\ pagEffect' = [pagEffect EXCEPT !.dirty = FALSE,
                                    !.cleanup = onPaginatedUpdate'.subscribed]
  /\ pagLast' = [op |-> "effectSubscribe", delegated |-> 0, status |-> Undef,
               failed |-> pagLast.failed]
  /\ UNCHANGED pagIn

\* the backend calls the page callback of an open subscription
PagPage ==
  /\ \E sub \in onPaginatedUpdate.open, status \in PageStatuses :
       \E results \in (IF status = "LoadingFirstPage" THEN {<<>>} ELSE PageResults) :
         /\ pag' = PagOnPage(pag, sub, results, status)
         /\ pagLast' = [op |-> "page", delegated |-> 0, status |-> status,
               failed |-> pagLast.failed]
  /\ UNCHANGED <<pagIn, pagEffect, onPaginatedUpdate>>

\* the backend calls the error callback of an open subscription
PagError ==
  /\ \E sub \in onPaginatedUpdate.open, err \in SubErrors :
       /\ pag' = PagOnError(pag, err)
       /\ pagLast' = [op |-> "error", delegated |-> 0, status |-> Undef, failed |-> sub]
  /\ UNCHANGED <<pagIn, pagEffect, onPaginatedUpdate>>

\* the subscription that was torn down last
LastClosed(subs) == {sub \in Closed(subs) : \A other \in Closed(subs) : other <= sub}

\* the page callback of the subscription torn down last is called all the
\* same
PagStalePage ==
  /\ \E sub \in LastClosed(onPaginatedUpdate), status \in PageStatuses :
       \E results \in (IF status = "LoadingFirstPage" THEN {<<>>} ELSE PageResults) :
         /\ pag' = PagOnPage(pag, sub, results, status)
         /\ pagLast' = [op |-> "stalePage", delegated |-> 0, status |-> status,
                        failed |-> pagLast.failed]
  /\ UNCHANGED <<pagIn, pagEffect, onPaginatedUpdate>>

\* the error callback of a torn-down subscription is called all the same
PagStaleError ==
  /\ Closed(onPaginatedUpdate) # {}
  /\ \E err \in SubErrors : pag' = PagOnError(pag, err)
  /\ pagLast' = [op |-> "staleError", delegated |-> 0, status |-> Undef,
                 failed |-> pagLast.failed]
  /\ UNCHANGED <<pagIn, pagEffect, onPaginatedUpdate>>

\* loadMore(n): false when nothing is bound, else the bound function is
\* called (delegated names the subscription that bound it); status is the
\* status tag a page callback was called with, failed the subscription
\* whose error callback fired last
PagLoadMore ==
  /\ pagLast' = [op |-> "loadMore", delegated |-> pag.currentLoadMore, status |-> Undef,
               failed |-> pagLast.failed]
  /\ UNCHANGED <<pag, pagIn, pagEffect, onPaginatedUpdate>>

\* the injection context is destroyed: the effect is destroyed and the
\* cleanup of its last run runs
PagDestroyKeepsSubscription ==
  /\ ~pagEffect.destroyed
  /\ pagEffect' = [pagEffect EXCEPT !.destroyed = TRUE, !.cleanup = 0]
  /\ pagLast' = [op |-> "destroy", delegated |-> 0, status |-> Undef,
               failed |-> pagLast.failed]
  /\ UNCHANGED <<pag, pagIn, onPaginatedUpdate>>

PagDestroy ==
  /\ ~pagEffect.destroyed
  /\ onPaginatedUpdate' = Cleanup(onPaginatedUpdate, pagEffect.cleanup)
  /\ pagEffect' = [pagEffect EXCEPT !.destroyed = TRUE, !.cleanup = 0]
  /\ pagLast' = [op |-> "destroy", delegated |-> 0, status |-> Undef,
               failed |-> pagLast.failed]
  /\ UNCHANGED <<pag, pagIn>>

(***************************************************************************)
(* ConvexAuthSyncService and injectAuth                                    *)
(***************************************************************************)

\* number of convex.setAuth calls in one behaviour
MaxSetAuth == 3

\* number of injectAuth() calls in one injector
MaxConsumers == 3

\* isConvexAuthenticated is null (pending), true or false
Null == "null"

True == "true"

False == "false"

SyncInitial == [isConvexAuthenticated |-> Null, error |-> Undef]

\* the Convex client before any setAuth: registration is the setAuth call
\* whose token fetcher and onChange callback the client holds (none: 0),
\* confirmed tells that the server has accepted the token of that
\* registration (the client has called its onChange with true)
NoAuth ==
  [ registration |-> 0, hasAuth |-> FALSE, confirmed |-> FALSE,
    setAuthCalls |-> 0, clearAuthCalls |-> 0 ]

\* injectAuth: the computed signals isLoading, isAuthenticated, status
AuthIsLoading(cfg, sy) == cfg.isLoading \/ sy.isConvexAuthenticated = Null

AuthIsAuthenticatedTrustsProvider(cfg, sy) == cfg.isAuthenticated

AuthIsAuthenticated(cfg, sy) == cfg.isAuthenticated /\ sy.isConvexAuthenticated = True

AuthStatus(cfg, sy) ==
  IF AuthIsLoading(cfg, sy) THEN "loading"
  ELSE IF AuthIsAuthenticated(cfg, sy) THEN "authenticated"
  ELSE "unauthenticated"

\* clearAuthIfNeeded()
ClearAuthIfNeeded(client) ==
  IF client.hasAuth
    THEN [client EXCEPT !.registration = 0, !.hasAuth = FALSE, !.confirmed = FALSE,
                        !.clearAuthCalls = @ + 1]
    ELSE client

\* the cleanup the previous effect run registered (if any) runs
AuthCleanup(client, registered) ==
  IF registered THEN ClearAuthIfNeeded(client) ELSE client

\* convex.setAuth(fetchAccessToken, onChange): the client holds the new
\* registration in place of any earlier one
SetAuth(client) ==
  [client EXCEPT !.registration = client.setAuthCalls + 1, !.confirmed = FALSE,
                 !.setAuthCalls = @ + 1]

\* the effect body's writes to the signals, by branch
SyncLoading(sy) == [sy EXCEPT !.isConvexAuthenticated = Null, !.error = Undef]

SyncUnauthenticated(sy) == [sy EXCEPT !.isConvexAuthenticated = False, !.error = Undef]

SyncAuthenticatedKeepsState(sy) == [sy EXCEPT !.error = Undef]

SyncAuthenticatedWaitsForBackend(sy) ==
  [sy EXCEPT !.isConvexAuthenticated = Null, !.error = Undef]

SyncAuthenticated(sy) == [sy EXCEPT !.isConvexAuthenticated = True, !.error = Undef]

\* the onChange callback passed to convex.setAuth
SyncOnChangeIgnoresFalse(sy, backendReportsIsAuthenticated) ==
  IF backendReportsIsAuthenticated
    THEN [sy EXCEPT !.isConvexAuthenticated = True, !.error = Undef]
    ELSE sy

SyncOnChange(sy, backendReportsIsAuthenticated) ==
  IF backendReportsIsAuthenticated
    THEN [sy EXCEPT !.isConvexAuthenticated = True, !.error = Undef]
    ELSE [sy EXCEPT !.isConvexAuthenticated = False]

\* the injector once its environment initializer has run: it has called
\* injectAuth() once, which instantiated the one ConvexAuthSyncService
ScopeInitial == [consumers |-> 1, services |-> 1]

\* what the consumer made by the c-th injectAuth() call reads: its computed
\* signals over the provider's signals and those of the injected service
ConsumerView(c) ==
  [ isLoading       |-> AuthIsLoading(authConfig, sync),
    isAuthenticated |-> AuthIsAuthenticated(authConfig, sync),
    status          |-> AuthStatus(authConfig, sync),
    error           |-> sync.error ]

\* the application does not use provideClerkAuth
NoClerk ==
  [ isLoaded |-> FALSE, isSignedIn |-> FALSE, orgId |-> Undef, orgRole |-> Undef,
    orgVersion |-> 0, orgDirty |-> FALSE, notified |-> FALSE, orgPending |-> FALSE ]

\* convexAuthGuard before the router has called it
GuardIdle ==
  [ invoked |-> FALSE, loginRoute |-> Undef, dirty |-> FALSE, done |-> FALSE,
    decisions |-> 0, result |-> "none" ]

AuthInit ==
  /\ sync = SyncInitial
  /\ authConfig \in [isLoading : BOOLEAN, isAuthenticated : BOOLEAN]
  /\ authEffect = [dirty |-> TRUE, cleanup |-> FALSE, destroyed |-> FALSE]
  /\ convexAuth = NoAuth
  /\ authLast = "init"
  /\ authScope = ScopeInitial
  /\ guard = GuardIdle
  /\ clerk = NoClerk

\* injectAuth() is called once more in the injector: inject() returns the
\* ConvexAuthSyncService the injector already holds, and the call makes
\* its own computed signals
AuthInjectCreatesService ==
  /\ authScope.consumers < MaxConsumers
  /\ ~authEffect.destroyed
  /\ authScope' = [authScope EXCEPT !.consumers = @ + 1, !.services = @ + 1]
  /\ authLast' = "inject"
  /\ UNCHANGED <<sync, authConfig, authEffect, convexAuth>>

AuthInject ==
  /\ authScope.consumers < MaxConsumers
  /\ ~authEffect.destroyed
  /\ authScope' = [authScope EXCEPT !.consumers = @ + 1]
  /\ authLast' = "inject"
  /\ UNCHANGED <<sync, authConfig, authEffect, convexAuth>>

\* the provider sets one or both of its signals in one synchronous step
AuthProviderChange ==
  /\ \E cfg \in [isLoading : BOOLEAN, isAuthenticated : BOOLEAN] \ {authConfig} :
       authConfig' = cfg
  /\ authEffect' = [authEffect EXCEPT !.dirty = TRUE]
  /\ authLast' = "providerChange"
  /\ UNCHANGED <<sync, convexAuth>>

\* the scheduled effect runs with the provider loading
AuthEffectLoading ==
  /\ authEffect.dirty /\ ~authEffect.destroyed
  /\ authConfig.isLoading
  /\ convexAuth' = ClearAuthIfNeeded(AuthCleanup(convexAuth, authEffect.cleanup))
  /\ sync' = SyncLoading(sync)
  /\ authEffect' = [authEffect EXCEPT !.dirty = FALSE, !.cleanup = FALSE]
  /\ authLast' = "effectLoading"
  /\ UNCHANGED authConfig

\* the scheduled effect runs with the provider loaded and not authenticated
AuthEffectUnauthenticated ==
  /\ authEffect.dirty /\ ~authEffect.destroyed
  /\ ~authConfig.isLoading /\ ~authConfig.isAuthenticated
  /\ convexAuth' = ClearAuthIfNeeded(AuthCleanup(convexAuth, authEffect.cleanup))
  /\ sync' = SyncUnauthenticated(sync)
  /\ authEffect' = [authEffect EXCEPT !.dirty = FALSE, !.cleanup = FALSE]
  /\ authLast' = "effectUnauthenticated"
  /\ UNCHANGED authConfig

\* the scheduled effect runs with the provider loaded and authenticated:
\* trusts the provider, registers the token fetcher and its own cleanup
AuthEffectAuthenticated ==
  /\ authEffect.dirty /\ ~authEffect.destroyed
  /\ ~authConfig.isLoading /\ authConfig.isAuthenticated
  /\ convexAuth.setAuthCalls < MaxSetAuth
  /\ convexAuth' = SetAuth(AuthCleanup(convexAuth, authEffect.cleanup))
  /\ sync' = SyncAuthenticated(sync)
  /\ authEffect' = [authEffect EXCEPT !.dirty = FALSE, !.cleanup = TRUE]
  /\ authLast' = "effectAuthenticated"
  /\ UNCHANGED authConfig

\* the Convex client has fetched a token from the registered fetcher and
\* holds it: hasAuth() turns true
ConvexTokenSet ==
  /\ convexAuth.registration # 0 /\ ~convexAuth.hasAuth
  /\ convexAuth' = [convexAuth EXCEPT !.hasAuth = TRUE]
  /\ authLast' = "tokenSet"
  /\ UNCHANGED <<sync, authConfig, authEffect>>

\* the Convex client calls the onChange callback of the registration it
\* holds with true: the server accepted the token the client holds
ConvexConfirms ==
  /\ convexAuth.registration # 0 /\ convexAuth.hasAuth
  /\ sync' = SyncOnChange(sync, TRUE)
  /\ convexAuth' = [convexAuth EXCEPT !.confirmed = TRUE]
  /\ authLast' = "onChangeTrue"
  /\ UNCHANGED <<authConfig, authEffect>>

\* the Convex client calls the onChange callback of the registration it
\* holds with false: no token, or the server rejected it
ConvexRejects ==
  /\ convexAuth.registration # 0
  /\ sync' = SyncOnChange(sync, FALSE)
  /\ convexAuth' = [convexAuth EXCEPT !.confirmed = FALSE]
  /\ authLast' = "onChangeFalse"
  /\ UNCHANGED <<authConfig, authEffect>>

\* the injector is destroyed: the effect is destroyed, the cleanup of its
\* last run runs, and so does the destroyRef.onDestroy callback
AuthDestroy ==
  /\ ~authEffect.destroyed
  /\ convexAuth' = ClearAuthIfNeeded(AuthCleanup(convexAuth, authEffect.cleanup))
  /\ authEffect' = [authEffect EXCEPT !.destroyed = TRUE, !.cleanup = FALSE]
  /\ authLast' = "destroy"
  /\ UNCHANGED <<sync, authConfig>>

(***************************************************************************)
(* convexAuthGuard                                                         *)
(***************************************************************************)

\* CONVEX_AUTH_GUARD_CONFIG: not provided, or with a login route
GuardConfigs == {Undef, "/auth/signin"}

\* config?.loginRoute ?? '/login'
LoginRoute(config) == IF config = Undef THEN "/login" ELSE config

\* the map operator: true, or the UrlTree of the login route (named by the
\* route)
GuardMap(status, loginRoute) == IF status = "authenticated" THEN "true" ELSE loginRoute

\* a value of status$ goes through filter, take(1) and map; after take(1)
\* has let one value through the observable is complete
GuardOnStatusTakesEvery(g, status) ==
  IF status = "loading"
    THEN [g EXCEPT !.dirty = FALSE]
    ELSE [g EXCEPT !.dirty = FALSE, !.done = TRUE, !.decisions = @ + 1,
                   !.result = GuardMap(status, g.loginRoute)]

GuardOnStatus(g, status) ==
  IF g.done \/ status = "loading"
    THEN [g EXCEPT !.dirty = FALSE]
    ELSE [g EXCEPT !.dirty = FALSE, !.done = TRUE, !.decisions = @ + 1,
                   !.result = GuardMap(status, g.loginRoute)]

\* the router calls convexAuthGuard for a navigation: injectAuth(), the
\* login route, and toObservable(auth.status), whose effect is scheduled
ConvexAuthGuard ==
  /\ ~guard.invoked /\ ~authEffect.destroyed
  /\ \E config \in GuardConfigs :
       guard' = [GuardIdle EXCEPT !.invoked = TRUE, !.dirty = TRUE,
                                  !.loginRoute = LoginRoute(config)]
  /\ authScope' = [authScope EXCEPT !.consumers = @ + 1]
  /\ UNCHANGED <<sync, authConfig, authEffect, convexAuth, authLast>>

\* the effect of toObservable runs and emits the current status
GuardStatusEmits ==
  /\ guard.invoked /\ guard.dirty /\ ~authEffect.destroyed
  /\ guard' = GuardOnStatus(guard, AuthStatus(authConfig, sync))
  /\ UNCHANGED <<sync, authConfig, authEffect, convexAuth, authLast, authScope>>

\* a step of the auth bridge that changes auth.status schedules the effect
\* of toObservable
GuardNotified ==
  guard' =
    IF guard.invoked /\ AuthStatus(authConfig', sync') # AuthStatus(authConfig, sync)
      THEN [guard EXCEPT !.dirty = TRUE]
      ELSE guard

(***************************************************************************)
(* provideClerkAuth                                                        *)
(***************************************************************************)

\* number of runs of the effect that bumps orgVersion in one behaviour
MaxOrgVersion == 3

\* what the ClerkAuthProvider's orgId and orgRole signals hold
OrgIds == {"org_1", "org_2"}

OrgRoles == {"admin", "member"}

\* the computed signals of the factory, recomputed from their sources:
\* isLoading is !clerk.isLoaded(); isAuthenticated reads orgVersion() and
\* returns clerk.isSignedIn()
ClerkIsLoading(c) == ~c.isLoaded

ClerkIsAuthenticated(c) == c.isSignedIn

\* the values the auth bridge's effect reads from CONVEX_AUTH_CONFIG;
\* authConfig holds the values the computed signals had when they were
\* last recomputed
ClerkConfig(c) ==
  [isLoading |-> ClerkIsLoading(c), isAuthenticated |-> ClerkIsAuthenticated(c)]

\* the effect of the auth bridge has found a changed producer and its body
\* has not run yet: body and check are one synchronous step
SyncRunPending == authEffect.dirty /\ ~clerk.notified

\* construction: the computed signals, orgVersion = 0, the effect on the
\* org signals scheduled for its first run; clerk.notified tells that a
\* source of the computed signals changed since the auth bridge's effect
\* last checked them, clerk.orgPending that orgId or orgRole changed while
\* the user was loaded and signed in and no setAuth call followed yet
ClerkInit ==
  /\ \E loaded, signedIn \in BOOLEAN, id \in OrgIds, role \in OrgRoles :
       clerk = [ isLoaded |-> loaded, isSignedIn |-> signedIn, orgId |-> id,
                 orgRole |-> role, orgVersion |-> 0, orgDirty |-> TRUE,
                 notified |-> FALSE, orgPending |-> FALSE ]
  /\ sync = SyncInitial
  /\ authConfig = ClerkConfig(clerk)
  /\ authEffect = [dirty |-> TRUE, cleanup |-> FALSE, destroyed |-> FALSE]
  /\ convexAuth = NoAuth
  /\ authLast = "init"
  /\ authScope = ScopeInitial
  /\ guard = GuardIdle

\* Clerk sets isLoaded or isSignedIn: the computed signals that read it
\* are stale and the auth bridge's effect is notified
ClerkSetSession ==
  /\ ~SyncRunPending
  /\ \E loaded, signedIn \in BOOLEAN :
       /\ <<loaded, signedIn>> # <<clerk.isLoaded, clerk.isSignedIn>>
       /\ clerk' = [clerk EXCEPT !.isLoaded = loaded, !.isSignedIn = signedIn,
                                 !.notified = TRUE, !.orgPending = FALSE]
  /\ authLast' = "clerkSession"
  /\ UNCHANGED <<sync, authConfig, authEffect, convexAuth>>

\* Clerk sets orgId or orgRole: the effect that reads them is scheduled
ClerkSetOrg ==
  /\ ~SyncRunPending
  /\ \E id \in OrgIds, role \in OrgRoles :
       /\ <<id, role>> # <<clerk.orgId, clerk.orgRole>>
       /\ clerk' = [clerk EXCEPT !.orgId = id, !.orgRole = role, !.orgDirty = TRUE,
                                 !.orgPending = @ \/ ( /\ clerk.isLoaded
                                                       /\ clerk.isSignedIn
                                                       /\ ~authEffect.destroyed )]
  /\ authLast' = "clerkOrg"
  /\ UNCHANGED <<sync, authConfig, authEffect, convexAuth>>

\* the effect on the org signals runs: orgVersion.update((v) => v + 1);
\* isAuthenticated, which reads orgVersion, is stale and the auth bridge's
\* effect is notified
ClerkOrgEffect ==
  /\ clerk.orgDirty /\ ~authEffect.destroyed
  /\ ~SyncRunPending
  /\ clerk.orgVersion < MaxOrgVersion
  /\ clerk' = [clerk EXCEPT !.orgVersion = @ + 1, !.orgDirty = FALSE, !.notified = TRUE]
  /\ authLast' = "orgEffect"
  /\ UNCHANGED <<sync, authConfig, authEffect, convexAuth>>

\* the notified effect of the auth bridge is flushed: the computed signals
\* it read are recomputed, and its body is run again only when one of them
\* has another value than before
ClerkSyncEffectPoll ==
  /\ clerk.notified /\ ~authEffect.destroyed
  /\ authConfig' = ClerkConfig(clerk)
  /\ authEffect' = [authEffect EXCEPT !.dirty = @ \/ authConfig' # authConfig]
  /\ clerk' = [clerk EXCEPT !.notified = FALSE]
  /\ authLast' = "poll"
  /\ UNCHANGED <<sync, convexAuth>>

\* a run of the auth bridge's effect that calls convex.setAuth
ClerkSetAuthObserved == clerk' = [clerk EXCEPT !.orgPending = FALSE]

(***************************************************************************)
(* The revisions of injectQuery and injectPaginatedQuery that keep the     *)
(* teardown function in a variable                                         *)
(***************************************************************************)

\* number of teardown calls after which the effect is not run again in one
\* behaviour
MaxTeardowns == 6

\* signals at construction: isLoading starts false, there are no options
LegacyQueryInitial == [QueryInitial(Undef) EXCEPT !.isLoading = FALSE]

\* the subscribing branch up to convex.onUpdate: cached data, when there is
\* any, replaces the data
LegacyQueryBegin(q, cached) ==
  [q EXCEPT !.isSkipped = FALSE, !.isLoading = TRUE,
            !.rawData = IF cached # Undef THEN cached ELSE @]

\* the error callback passed to convex.onUpdate
LegacyQueryOnError(q, err) ==
  [q EXCEPT !.rawData = Undef, !.error = err, !.isLoading = FALSE]

\* unsubscribe?.(): the function the variable holds (none: 0) is called;
\* the variable keeps it
CallUnsubscribe(subs, unsubscribe) == Cleanup(subs, unsubscribe)

\* queryEffect.cleanup is the variable unsubscribe
LegacyQueryInit ==
  /\ query = LegacyQueryInitial
  /\ queryIn \in [args : QueryArgs \cup {SkipToken}, enabled : {TRUE}]
  /\ queryEffect = [dirty |-> TRUE, cleanup |-> 0, destroyed |-> FALSE]
  /\ onUpdate = NoSubs
  /\ queryLast = "init"
  /\ skipToggles = NoToggles(queryIn)
  /\ localQueryResult \in {Undef, "second"}

\* the scheduled effect runs with skipToken: unsubscribe?.(), then the skip
\* branch, which returns without assigning the variable
LegacyQueryEffectSkip ==
  /\ queryEffect.dirty /\ ~queryEffect.destroyed
  /\ queryIn.args = SkipToken
  /\ onUpdate.unsubscribed < MaxTeardowns
  /\ onUpdate' = CallUnsubscribe(onUpdate, queryEffect.cleanup)
  /\ query' = QuerySkip(query)
  /\ queryEffect' = [queryEffect EXCEPT !.dirty = FALSE]
  /\ queryLast' = "effectSkip"
  /\ UNCHANGED queryIn

\* the scheduled effect runs and subscribes: unsubscribe?.(), then the
\* body, which assigns the new teardown function to the variable
LegacyQueryEffectSubscribe ==
  /\ queryEffect.dirty /\ ~queryEffect.destroyed
  /\ queryIn.args # SkipToken
  /\ onUpdate.subscribed < MaxSubs
  /\ onUpdate.unsubscribed < MaxTeardowns
  /\ query' = LegacyQueryBegin(query, localQueryResult)
  /\ onUpdate' = Subscribe(CallUnsubscribe(onUpdate, queryEffect.cleanup), queryIn.args)
  /\ queryEffect' = [queryEffect EXCEPT !.dirty = FALSE, !.cleanup = onUpdate'.subscribed]
  /\ queryLast' = "effectSubscribe"
  /\ UNCHANGED queryIn

\* the backend reports an error to an open subscription
LegacyQueryError ==
  /\ onUpdate.open # {}
  /\ \E err \in SubErrors : query' = LegacyQueryOnError(query, err)
  /\ queryLast' = "error"
  /\ UNCHANGED <<queryIn, queryEffect, onUpdate>>

\* destroyRef.onDestroy(() => unsubscribe?.())
LegacyQueryDestroy ==
  /\ ~queryEffect.destroyed
  /\ onUpdate' = CallUnsubscribe(onUpdate, queryEffect.cleanup)
  /\ queryEffect' = [queryEffect EXCEPT !.destroyed = TRUE]
  /\ queryLast' = "destroy"
  /\ UNCHANGED <<query, queryIn>>

\* the scheduled effect runs with skipToken: unsubscribe?.(), then the skip
\* branch, which returns without assigning the variable; pagEffect.cleanup
\* is the variable unsubscribe
LegacyPagEffectSkip ==
  /\ pagEffect.dirty /\ ~pagEffect.destroyed
  /\ pagIn.args = SkipToken
  /\ onPaginatedUpdate.unsubscribed < MaxTeardowns
  /\ onPaginatedUpdate' = CallUnsubscribe(onPaginatedUpdate, pagEffect.cleanup)
  /\ pag' = PagSkip(pag)
  /\ pagEffect' = [pagEffect EXCEPT !.dirty = FALSE]
  /\ pagLast' = [op |-> "effectSkip", delegated |-> 0, status |-> Undef,
                 failed |-> pagLast.failed]
  /\ UNCHANGED pagIn

\* subscribe(args): unsubscribe?.(), the state reset, then the
\* subscription
LegacySubscribe(subs, unsubscribe, args) ==
  Subscribe(CallUnsubscribe(subs, unsubscribe), args)

\* the scheduled effect runs and subscribes: unsubscribe?.(), then
\* subscribe(args), which assigns the new teardown function to the variable
LegacyPagEffectSubscribe ==
  /\ pagEffect.dirty /\ ~pagEffect.destroyed
  /\ pagIn.args # SkipToken
  /\ onPaginatedUpdate.subscribed < MaxSubs
  /\ onPaginatedUpdate.unsubscribed < MaxTeardowns
  /\ pag' = ResetState(pag)
  /\ onPaginatedUpdate' =
       LegacySubscribe(CallUnsubscribe(onPaginatedUpdate, pagEffect.cleanup),
                       pagEffect.cleanup, pagIn.args)
  /\ pagEffect' = [pagEffect EXCEPT !.dirty = FALSE,
                                    !.cleanup = onPaginatedUpdate'.subscribed]
  /\ pagLast' = [op |-> "effectSubscribe", delegated |-> 0, status |-> Undef,
                 failed |-> pagLast.failed]
  /\ UNCHANGED pagIn

\* destroyRef.onDestroy(() => unsubscribe?.())
LegacyPagDestroy ==
  /\ ~pagEffect.destroyed
  /\ onPaginatedUpdate' = CallUnsubscribe(onPaginatedUpdate, pagEffect.cleanup)
  /\ pagEffect' = [pagEffect EXCEPT !.destroyed = TRUE]
  /\ pagLast' = [op |-> "destroy", delegated |-> 0, status |-> Undef,
                 failed |-> pagLast.failed]
  /\ UNCHANGED <<pag, pagIn>>

(***************************************************************************)
(* Specifications                                                          *)
(***************************************************************************)

vars == <<callVars, queryVars, pagVars, authVars>>

\* a component no specification is about stays as constructed
CallUnused ==
  /\ call = CallIdle
  /\ callOptions = [onSuccess |-> "none", onError |-> "none", onSettled |-> "none"]
  /\ calls = [i \in CallIds |-> NoCall]
  /\ callLast = [op |-> "init", id |-> 0, idleBefore |-> FALSE]

QueryUnused ==
  /\ query = QueryInitial(Undef)
  /\ queryIn = [args |-> "argsA", enabled |-> TRUE]
  /\ queryEffect = [dirty |-> TRUE, cleanup |-> 0, destroyed |-> FALSE]
  /\ onUpdate = NoSubs
  /\ queryLast = "init"
  /\ skipToggles = NoToggles(queryIn)
  /\ localQueryResult = Undef

PagUnused ==
  /\ pag = PagInitial
  /\ pagIn = [args |-> "argsA", initialNumItems |-> 10]
  /\ pagEffect = [dirty |-> TRUE, cleanup |-> 0, destroyed |-> FALSE]
  /\ onPaginatedUpdate = NoSubs
  /\ pagLast = [op |-> "init", delegated |-> 0, status |-> Undef, failed |-> 0]

AuthUnused ==
  /\ sync = SyncInitial
  /\ authConfig = [isLoading |-> TRUE, isAuthenticated |-> FALSE]
  /\ authEffect = [dirty |-> TRUE, cleanup |-> FALSE, destroyed |-> FALSE]
  /\ convexAuth = NoAuth
  /\ authLast = "init"
  /\ authScope = ScopeInitial
  /\ guard = GuardIdle
  /\ clerk = NoClerk

InitCall == CallInit /\ QueryUnused /\ PagUnused /\ AuthUnused

NextCall ==
  \/ Execute /\ UNCHANGED <<queryVars, pagVars, authVars>>
  \/ ExecuteThrows /\ UNCHANGED <<queryVars, pagVars, authVars>>
  \/ SettleResolve /\ UNCHANGED <<queryVars, pagVars, authVars>>
  \/ SettleReject /\ UNCHANGED <<queryVars, pagVars, authVars>>
  \/ CallReset /\ UNCHANGED <<queryVars, pagVars, authVars>>

SpecCall == InitCall /\ [][NextCall]_vars

NextMutate ==
  \/ Mutate /\ UNCHANGED <<queryVars, pagVars, authVars>>
  \/ MutateResolve /\ UNCHANGED <<queryVars, pagVars, authVars>>
  \/ MutateReject /\ UNCHANGED <<queryVars, pagVars, authVars>>
  \/ MutateReset /\ UNCHANGED <<queryVars, pagVars, authVars>>

SpecMutate == InitCall /\ [][NextMutate]_vars

InitQuery == QueryInit /\ CallUnused /\ PagUnused /\ AuthUnused

NextQuery ==
  \/ QueryCacheChange /\ ObserveToggles /\ UNCHANGED <<callVars, pagVars, authVars>>
  \/ QuerySetArgs /\ ObserveToggles /\ UNCHANGED <<localQueryResult, callVars, pagVars, authVars>>
  \/ QuerySetEnabled /\ ObserveToggles /\ UNCHANGED <<localQueryResult, callVars, pagVars, authVars>>
  \/ QueryRefetch /\ ObserveToggles /\ UNCHANGED <<localQueryResult, callVars, pagVars, authVars>>
  \/ QueryEffectSkip /\ ObserveToggles /\ UNCHANGED <<localQueryResult, callVars, pagVars, authVars>>
  \/ QueryEffectSubscribe /\ ObserveToggles /\ UNCHANGED <<localQueryResult, callVars, pagVars, authVars>>
  \/ QueryData /\ ObserveToggles /\ UNCHANGED <<localQueryResult, callVars, pagVars, authVars>>
  \/ QueryError /\ ObserveToggles /\ UNCHANGED <<localQueryResult, callVars, pagVars, authVars>>
  \/ QueryDestroy /\ ObserveToggles /\ UNCHANGED <<localQueryResult, callVars, pagVars, authVars>>

SpecQuery == InitQuery /\ [][NextQuery]_vars

InitPag == PagInit /\ CallUnused /\ QueryUnused /\ AuthUnused

NextPag ==
  \/ PagSetArgs /\ UNCHANGED <<callVars, queryVars, authVars>>
  \/ PagSetOptions /\ UNCHANGED <<callVars, queryVars, authVars>>
  \/ PagReset /\ UNCHANGED <<callVars, queryVars, authVars>>
  \/ PagEffectSkip /\ UNCHANGED <<callVars, queryVars, authVars>>
  \/ PagEffectSubscribe /\ UNCHANGED <<callVars, queryVars, authVars>>
  \/ PagPage /\ UNCHANGED <<callVars, queryVars, authVars>>
  \/ PagError /\ UNCHANGED <<callVars, queryVars, authVars>>
  \/ PagLoadMore /\ UNCHANGED <<callVars, queryVars, authVars>>
  \/ PagDestroy /\ UNCHANGED <<callVars, queryVars, authVars>>

SpecPag == InitPag /\ [][NextPag]_vars

InitAuth == AuthInit /\ CallUnused /\ QueryUnused /\ PagUnused

NextAuth ==
  \/ AuthInject /\ UNCHANGED <<guard, clerk, callVars, queryVars, pagVars>>
  \/ AuthProviderChange /\ UNCHANGED <<authScope, guard, clerk, callVars, queryVars, pagVars>>
  \/ AuthEffectLoading /\ UNCHANGED <<authScope, guard, clerk, callVars, queryVars, pagVars>>
  \/ AuthEffectUnauthenticated /\ UNCHANGED <<authScope, guard, clerk, callVars, queryVars, pagVars>>
  \/ AuthEffectAuthenticated /\ UNCHANGED <<authScope, guard, clerk, callVars, queryVars, pagVars>>
  \/ ConvexTokenSet /\ UNCHANGED <<authScope, guard, clerk, callVars, queryVars, pagVars>>
  \/ ConvexConfirms /\ UNCHANGED <<authScope, guard, clerk, callVars, queryVars, pagVars>>
  \/ ConvexRejects /\ UNCHANGED <<authScope, guard, clerk, callVars, queryVars, pagVars>>
  \/ AuthDestroy /\ UNCHANGED <<authScope, guard, clerk, callVars, queryVars, pagVars>>

SpecAuth == InitAuth /\ [][NextAuth]_vars

NextGuard ==
  \/ ConvexAuthGuard /\ UNCHANGED <<clerk, callVars, queryVars, pagVars>>
  \/ GuardStatusEmits /\ UNCHANGED <<clerk, callVars, queryVars, pagVars>>
  \/ AuthProviderChange /\ GuardNotified /\ UNCHANGED <<authScope, clerk, callVars, queryVars, pagVars>>
  \/ AuthEffectLoading /\ GuardNotified /\ UNCHANGED <<authScope, clerk, callVars, queryVars, pagVars>>
  \/ AuthEffectUnauthenticated /\ GuardNotified /\ UNCHANGED <<authScope, clerk, callVars, queryVars, pagVars>>
  \/ AuthEffectAuthenticated /\ GuardNotified /\ UNCHANGED <<authScope, clerk, callVars, queryVars, pagVars>>
  \/ ConvexTokenSet /\ GuardNotified /\ UNCHANGED <<authScope, clerk, callVars, queryVars, pagVars>>
  \/ ConvexConfirms /\ GuardNotified /\ UNCHANGED <<authScope, clerk, callVars, queryVars, pagVars>>
  \/ ConvexRejects /\ GuardNotified /\ UNCHANGED <<authScope, clerk, callVars, queryVars, pagVars>>
  \/ AuthDestroy /\ GuardNotified /\ UNCHANGED <<authScope, clerk, callVars, queryVars, pagVars>>

SpecGuard == InitAuth /\ [][NextGuard]_vars

\* one manager of either kind: a live-query manager or a paginated one; the
\* manager that was not made stays as constructed
InitManagers == InitQuery \/ InitPag

NextManagers ==
  \/ PagUnused /\ NextQuery
  \/ QueryUnused /\ NextPag

SpecManagers == InitManagers /\ [][NextManagers]_vars

\* one manager of either kind, with an empty local cache and fixed options,
\* over a backend that may still call the callbacks of a subscription after
\* its teardown function was called
InitStale ==
  /\ InitManagers
  /\ localQueryResult = Undef
  /\ pagIn.initialNumItems = 10

QueryStaleStep ==
  \/ QuerySetArgs \/ QuerySetEnabled \/ QueryRefetch
  \/ QueryEffectSkip \/ QueryEffectSubscribe
  \/ QueryData \/ QueryError \/ QueryDestroy
  \/ QueryStaleData \/ QueryStaleError

PagStaleStep ==
  \/ PagSetArgs \/ PagReset
  \/ PagEffectSkip \/ PagEffectSubscribe
  \/ PagPage \/ PagError \/ PagDestroy
  \/ PagStalePage \/ PagStaleError

NextStale ==
  \/ /\ PagUnused
     /\ QueryStaleStep /\ ObserveToggles
     /\ UNCHANGED <<localQueryResult, callVars, pagVars, authVars>>
  \/ /\ QueryUnused
     /\ PagStaleStep
     /\ UNCHANGED <<callVars, queryVars, authVars>>

SpecStale == InitStale /\ [][NextStale]_vars

\* one manager of either kind in the revision that keeps the teardown
\* function in a variable; the manager that was not made stays as
\* constructed
InitLegacy ==
  \/ LegacyQueryInit /\ CallUnused /\ PagUnused /\ AuthUnused
  \/ PagInit /\ CallUnused /\ QueryUnused /\ AuthUnused

LegacyQueryStep ==
  \/ QuerySetArgs
  \/ LegacyQueryEffectSkip \/ LegacyQueryEffectSubscribe
  \/ QueryData \/ LegacyQueryError \/ LegacyQueryDestroy

LegacyPagStep ==
  \/ PagSetArgs \/ PagSetOptions \/ PagReset
  \/ LegacyPagEffectSkip \/ LegacyPagEffectSubscribe
  \/ PagPage \/ PagError \/ LegacyPagDestroy

NextLegacy ==
  \/ /\ PagUnused /\ ~QueryUnused
     /\ LegacyQueryStep
     /\ UNCHANGED <<skipToggles, localQueryResult, callVars, pagVars, authVars>>
  \/ /\ QueryUnused
     /\ LegacyPagStep
     /\ UNCHANGED <<callVars, queryVars, authVars>>

SpecLegacy == InitLegacy /\ [][NextLegacy]_vars

\* the auth bridge over provideClerkAuth's CONVEX_AUTH_CONFIG
InitClerk == ClerkInit /\ CallUnused /\ QueryUnused /\ PagUnused

NextClerk ==
  \/ ClerkSetSession /\ UNCHANGED <<authScope, guard, callVars, queryVars, pagVars>>
  \/ ClerkSetOrg /\ UNCHANGED <<authScope, guard, callVars, queryVars, pagVars>>
  \/ ClerkOrgEffect /\ UNCHANGED <<authScope, guard, callVars, queryVars, pagVars>>
  \/ ClerkSyncEffectPoll /\ UNCHANGED <<authScope, guard, callVars, queryVars, pagVars>>
  \/ AuthEffectLoading /\ UNCHANGED <<authScope, guard, clerk, callVars, queryVars, pagVars>>
  \/ AuthEffectUnauthenticated /\ UNCHANGED <<authScope, guard, clerk, callVars, queryVars, pagVars>>
  \/ AuthEffectAuthenticated /\ ClerkSetAuthObserved /\ UNCHANGED <<authScope, guard, callVars, queryVars, pagVars>>
  \/ ConvexTokenSet /\ UNCHANGED <<authScope, guard, clerk, callVars, queryVars, pagVars>>
  \/ ConvexConfirms /\ UNCHANGED <<authScope, guard, clerk, callVars, queryVars, pagVars>>
  \/ ConvexRejects /\ UNCHANGED <<authScope, guard, clerk, callVars, queryVars, pagVars>>
  \/ AuthDestroy /\ UNCHANGED <<authScope, guard, clerk, callVars, queryVars, pagVars>>

SpecClerk == InitClerk /\ [][NextClerk]_vars

(***************************************************************************)
(* Claims about createCallableProvider (checked under SpecCall)            *)
(***************************************************************************)

\* C2: right after execute() has been invoked with a function that returned
\* a promise - nothing having settled since, whether or not an earlier call
\* is still in flight - the call state is data = undefined,
\* error = undefined, hasCompleted = false, isLoading = true, status 'pending'.
C2_PendingRightAfterExecute ==
  callLast.op = "execute" =>
    /\ call = [data |-> Undef, error |-> Undef, isLoading |-> TRUE, hasCompleted |-> FALSE]
    /\ CallStatus(call) = "pending"

\* C2 witness: a second execute() has just been invoked while the first call
\* is still in flight.
C2_Witness ==
  /\ callLast.op = "execute" /\ callLast.id = 2
  /\ InFlight = {1, 2}

\* the fn of call i failed: its promise rejected, or it threw
Failed(i) == calls[i].phase \in {"rejected", "threw"}

\* C3 as stated: when fn rejects, the promise execute() returned rejects with
\* the normalized error object of that rejection, and never resolves.
C3_RejectsWithNormalizedError ==
  \A i \in CallIds :
    calls[i].phase = "rejected" =>
      calls[i].promise = [state |-> "rejected", value |-> ToError(calls[i].settled)]

\* C3 amended: when fn rejects, the error state is set to the normalized
\* error (read right after the rejection was handled), and the promise
\* execute() returned never resolves: it rejects with that same normalized
\* error object, or, when the onError callback itself throws, with what
\* onError threw.
C3_FailureSurfacedBothWays ==
  \A i \in CallIds :
    Failed(i) =>
      /\ calls[i].promise.state = "rejected"
      /\ calls[i].promise.value =
           IF callOptions.onError = "throws" THEN OnErrorThrown
           ELSE ToError(calls[i].settled)
      /\ (callLast.id = i /\ callLast.op \in {"reject", "executeThrows"}) =>
           call.error = ToError(calls[i].settled)

\* C3 witness: a call rejected with a value that is no Error and onError
\* returned normally: the promise rejected with the wrapping Error.
C3_Witness ==
  \E i \in CallIds :
    /\ calls[i].phase = "rejected"
    /\ calls[i].settled = "oops"
    /\ callOptions.onError = "returns"
    /\ calls[i].promise = [state |-> "rejected", value |-> "Error(oops)"]

\* the state call i leaves when it is the only call: execute() from idle,
\* then its settlement
AloneOutcome(i) ==
  LET begun == ExecuteBegin(CallIdle) IN
  IF calls[i].phase = "resolved"
    THEN LET s1 == ExecuteResolved(begun, calls[i].settled) IN
         IF callOptions.onSuccess = "throws"
           THEN ExecuteFinally(ExecuteCatch(s1, OnSuccessThrown).state)
           ELSE ExecuteFinally(s1)
    ELSE ExecuteFinally(ExecuteCatch(begun, calls[i].settled).state)

\* a step in which the promise of an in-flight call settles
SettleStep(op) == callLast' # callLast /\ callLast'.op = op

\* C4 as stated: once every call has settled, data, error and hasCompleted
\* are those of the call that settled last.
C4_LastSettledDeterminesAll ==
  ( /\ callLast.op \in {"resolve", "reject"}
    /\ InFlight = {}
    /\ \A i \in CallIds : calls[i].phase # "threw" ) =>
    call = AloneOutcome(callLast.id)

\* C4 amended: overlapping calls all run to completion, and each settlement
\* writes only its own fields: the call that settles last sets
\* hasCompleted = true, isLoading = false and the field of its own outcome
\* (data when it resolved, error when it rejected), and leaves the other
\* field as the earlier settlement left it - also when it is the
\* first-issued call.
C4_LastSettledWritesOwnField ==
  [][ /\ SettleStep("resolve") =>
           /\ call'.data = calls'[callLast'.id].settled
           /\ call'.hasCompleted /\ ~call'.isLoading
           /\ callOptions.onSuccess # "throws" => call'.error = call.error
      /\ SettleStep("reject") =>
           /\ call'.error = ToError(calls'[callLast'.id].settled)
           /\ call'.hasCompleted /\ ~call'.isLoading
           /\ call'.data = call.data
      /\ \A i \in InFlight : calls'[i].phase # "unissued"
    ]_vars

\* C4 witness: call 2 rejected first, then the superseded call 1 resolved
\* last: data is call 1's result and error is still call 2's error.
C4_Witness ==
  /\ callLast.op = "resolve" /\ callLast.id = 1
  /\ calls[2].phase = "rejected"
  /\ InFlight = {}
  /\ callOptions.onSuccess # "throws"
  /\ call.data = calls[1].settled
  /\ call.error = ToError(calls[2].settled)

\* C13: reset(), called in any call state (idle, pending, success or
\* error), leaves data = undefined, error = undefined, isLoading = false and
\* status 'idle', with isSuccess and isError false, as soon as it returns.
C13_ResetYieldsIdle ==
  [][ (callLast'.op = "reset" /\ callLast' # callLast) =>
        /\ call'.data = Undef /\ call'.error = Undef /\ ~call'.isLoading
        /\ CallStatus(call') = "idle"
        /\ ~CallIsSuccess(call') /\ ~CallIsError(call')
    ]_vars

\* C13 witness: reset() has just been called while a call was in flight,
\* after another call had failed and a third had succeeded.
C13_Witness ==
  /\ callLast.op = "reset"
  /\ InFlight # {}
  /\ \E i, j \in CallIds : calls[i].phase = "rejected" /\ calls[j].phase = "resolved"
  /\ CallStatus(call) = "idle"

\* C16: for every execute() call whose function has settled, onSettled, if
\* configured, has been invoked exactly once for that call.
C16_OnSettledOncePerSettledCall ==
  \A i \in CallIds :
    (calls[i].phase \in {"resolved", "rejected"} /\ callOptions.onSettled # "none") =>
      calls[i].onSettled = 1

\* C17: for each execute() call that has settled, exactly one of the
\* configured callbacks has been invoked, once: onSuccess and not onError
\* when the function resolved, onError and not onSuccess when it rejected.
C17_ExactlyOneCallback ==
  \A i \in CallIds :
    /\ calls[i].phase = "resolved" =>
         calls[i].onSuccess = OnSuccessCount /\ calls[i].onError = 0
    /\ calls[i].phase = "rejected" =>
         calls[i].onError = OnErrorCount /\ calls[i].onSuccess = 0

C36_SettlementAfterResetLeavesIdle ==
  [][ /\ (callLast'.op = "reset" /\ callLast' # callLast /\ InFlight # {}) =>
           /\ call' = [data |-> Undef, error |-> Undef, isLoading |-> FALSE,
                       hasCompleted |-> FALSE]
           /\ CallStatus(call') = "idle"
           /\ InFlight' = InFlight
      /\ (callLast'.op \in {"resolve", "reject"} /\ callLast'.idleBefore) =>
           /\ call'.hasCompleted /\ ~call'.isLoading
           /\ call'.data # Undef \/ call'.error # Undef
           /\ CallStatus(call') \in {"success", "error"}
           /\ Issued' = Issued
    ]_vars

\* C36 witness: the only call ever made was in flight when reset() was
\* called and has now resolved: data is set and the status is success.
C36_Witness ==
  /\ callLast.op = "resolve" /\ callLast.idleBefore
  /\ Issued = {1}
  /\ call.data \in Values /\ call.hasCompleted
  /\ CallStatus(call) = "success"

\* C37 as stated: data and error of the call state are never both defined
\* (here already for callbacks that do not throw).
C37_DataAndErrorExclusive ==
  callOptions.onSuccess # "throws" => ~(call.data # Undef /\ call.error # Undef)

\* C37, amended: data and error are both undefined right after every
\* execute() invocation and every reset(); a settlement clears neither
\* field (a rejection leaves data as it is, a resolution leaves an error
\* in place), so after overlapping calls both can be defined.
C37_OnlyExecuteAndResetClear ==
  [][ /\ (callLast'.op \in {"execute", "reset"} /\ callLast' # callLast) =>
           call'.data = Undef /\ call'.error = Undef
      /\ callLast'.op = "reject" =>
           call'.data = call.data /\ call'.error # Undef
      /\ callLast'.op = "resolve" =>
           /\ call'.data # Undef
           /\ call.error # Undef => call'.error # Undef
      /\ (call.data = Undef /\ call'.data # Undef) => callLast'.op = "resolve"
      /\ (call.error = Undef /\ call'.error # Undef) =>
           callLast'.op \in {"reject", "resolve", "executeThrows"}
    ]_vars

\* C37 witness: of two overlapping calls the first resolved and then the
\* second rejected, no callback throwing: data holds the first call's
\* result and error the second call's error.
C37_Witness ==
  /\ callLast.op = "reject" /\ callLast.id = 2
  /\ calls[1].phase = "resolved"
  /\ callOptions.onSuccess # "throws" /\ callOptions.onError # "throws"
  /\ call.data = calls[1].settled
  /\ call.error = ToError(calls[2].settled)

(***************************************************************************)
(* Claims about injectMutation (checked under SpecMutate)                  *)
(***************************************************************************)

\* C15: when the backend call of a mutate() fails, the promise mutate()
\* returned rejects; it never resolves (in particular not with undefined).
C15_MutateRejectsOnFailure ==
  \A i \in CallIds :
    calls[i].phase = "rejected" =>
      /\ calls[i].promise.state = "rejected"
      /\ calls[i].promise # [state |-> "resolved", value |-> Undef]

(***************************************************************************)
(* Claims about injectQuery (checked under SpecQuery)                      *)
(***************************************************************************)

\* C1: a live-query manager has at most one backend subscription open at
\* every moment: the only subscription that can be open is the one opened
\* last, and every subscription opened before it has been torn down.
C1_AtMostOneSubscription ==
  /\ Cardinality(onUpdate.open) <= 1
  /\ onUpdate.open \subseteq {onUpdate.subscribed}
  /\ onUpdate.unsubscribed >= onUpdate.subscribed - 1

\* C1 witness: the manager has resubscribed after a refetch() and an earlier
\* resubscription: the third subscription is open, the first two torn down.
C1_Witness ==
  /\ onUpdate.subscribed = 3
  /\ onUpdate.open = {3}
  /\ onUpdate.unsubscribed = 2
  /\ query.refetchVersion >= 1

\* C9: whenever the effect has last run with the skip sentinel or with
\* enabled = false, the manager is in the state data = undefined,
\* error = undefined, isLoading = false, isSkipped = true and holds no open
\* subscription; this lasts until the effect runs again, so it is
\* established before any later subscription attempt.
C9_SkippedStateIsClean ==
  /\ queryLast = "effectSkip" => query.isSkipped
  /\ query.isSkipped =>
       /\ query.rawData = Undef
       /\ query.error = Undef
       /\ ~query.isLoading
       /\ onUpdate.open = {}
       /\ queryEffect.cleanup = 0
       /\ QueryStatus(query) = "skipped"

\* C9 witness: the effect has just taken the skip branch with enabled = false
\* and non-skip arguments after a subscription had been opened.
C9_Witness ==
  /\ queryLast = "effectSkip"
  /\ ~queryIn.enabled /\ queryIn.args # SkipToken
  /\ onUpdate.subscribed >= 1
  /\ onUpdate.unsubscribed = onUpdate.subscribed

\* C10: once the manager has been destroyed, the number of subscribe calls
\* equals the number of teardown invocations.
C10_BalancedAfterDestroy ==
  queryEffect.destroyed =>
    /\ onUpdate.subscribed = onUpdate.unsubscribed
    /\ onUpdate.open = {}

\* C10 witness: a manager destroyed after two subscriptions and a refetch().
C10_Witness ==
  /\ queryEffect.destroyed
  /\ onUpdate.subscribed >= 2
  /\ query.refetchVersion >= 1

\* the manager started skipped and has since seen nothing but skip toggles,
\* no more of them than the subscriptions one behaviour opens
OnlyToggled == skipToggles.pure /\ skipToggles.off <= MaxSubs

\* C11 as stated: starting from a skipped manager, after N toggles of skip
\* off and back on (and the effect having run for the last one) there have
\* been exactly N subscribe calls and N unsubscribe calls.
C11_EveryToggleSubscribes ==
  (OnlyToggled /\ ~queryEffect.dirty) =>
    /\ onUpdate.subscribed = skipToggles.off
    /\ onUpdate.unsubscribed = skipToggles.on

\* C11 amended: starting from a skipped manager that sees nothing but skip
\* toggles, subscribe and unsubscribe calls alternate strictly, each
\* unsubscribe tearing down the subscription opened by the subscribe before
\* it, and there are never more of them than toggles; there are exactly as
\* many subscribe calls as toggles off and unsubscribe calls as toggles
\* back on when the effect has run after every toggle (toggles made while a
\* run of the effect is still scheduled are seen by that one run together).
C11_FlushedTogglesAlternate ==
  OnlyToggled =>
    /\ onUpdate.subscribed - onUpdate.unsubscribed \in {0, 1}
    /\ onUpdate.open =
         IF onUpdate.subscribed > onUpdate.unsubscribed
           THEN {onUpdate.subscribed} ELSE {}
    /\ onUpdate.subscribed <= skipToggles.off
    /\ onUpdate.unsubscribed <= skipToggles.on
    /\ (~skipToggles.coalesced /\ ~queryEffect.dirty) =>
         /\ onUpdate.subscribed = skipToggles.off
         /\ onUpdate.unsubscribed = skipToggles.on

\* C11 witness: skip was toggled off and back on three times, the effect
\* running after every toggle: three subscriptions, all three torn down.
C11_Witness ==
  /\ OnlyToggled /\ ~skipToggles.coalesced /\ ~queryEffect.dirty
  /\ skipToggles.off = 3 /\ skipToggles.on = 3
  /\ onUpdate.subscribed = 3 /\ onUpdate.unsubscribed = 3
  /\ query.isSkipped

\* a run of the effect that refetch() scheduled, for a manager that holds
\* data and whose arguments are those of its open subscription
RefetchRerun ==
  /\ queryLast = "refetch" /\ queryLast' = "effectSubscribe"
  /\ query.rawData # Undef
  /\ onUpdate.open # {} /\ queryIn.args = onUpdate.args

C30_CacheReadOnlyFillsUnsetData ==
  [][ queryLast' = "effectSubscribe" =>
        /\ query.rawData # Undef => query'.rawData = query.rawData
        /\ query.rawData = Undef => query'.rawData = localQueryResult
    ]_vars

\* C30 witness: the effect has just resubscribed while data held "first" and
\* the local cache held "second": data is still "first".
C30_Witness ==
  /\ queryLast = "effectSubscribe"
  /\ onUpdate.subscribed >= 2
  /\ query.rawData = "first"
  /\ localQueryResult = "second"

\* C32: for injectQuery, isError() is false whenever the status is pending
\* or skipped: once an argument change or refetch() has started a new
\* subscription that has not delivered yet, the error of an earlier
\* subscription is no longer reported.
C32_NoErrorWhilePendingOrSkipped ==
  QueryStatus(query) \in {"pending", "skipped"} => ~QueryIsError(query)

(***************************************************************************)
(* Claims about injectPaginatedQuery (checked under SpecPag)               *)
(***************************************************************************)

\* C8: when the error callback of the paginated subscription fires,
\* afterwards results is unchanged, error is set, isLoadingFirstPage and
\* isLoadingMore are false, canLoadMore is true and isExhausted is false.
C8_ErrorPreservesResults ==
  [][ pagLast'.op = "error" =>
        /\ pag'.results = pag.results
        /\ pag'.error # Undef
        /\ ~pag'.isLoadingFirstPage /\ ~pag'.isLoadingMore
        /\ pag'.canLoadMore /\ ~pag'.isExhausted
    ]_vars

\* C8 witness: the error callback has just fired while results held [A, B].
C8_Witness ==
  /\ pagLast.op = "error"
  /\ pag.results = <<"A", "B">>
  /\ pag.error # Undef
  /\ pag.canLoadMore

\* C25: whatever arguments changes, options changes, skip toggles, reset()
\* calls and disposal happen, one paginated manager has at most one
\* paginated subscription open at every moment (the one whose teardown the
\* last run of the effect registered), and none while the manager is
\* skipped or once it has been disposed.
C25_AtMostOnePaginatedSubscription ==
  /\ Cardinality(onPaginatedUpdate.open) <= 1
  /\ onPaginatedUpdate.open = {pagEffect.cleanup} \ {0}
  /\ (pag.isSkipped \/ pagEffect.destroyed) => onPaginatedUpdate.open = {}

\* C25 witness: a manager disposed while skipped, after a reset(), an
\* options change and two subscriptions that were both torn down.
C25_Witness ==
  /\ pagEffect.destroyed /\ pag.isSkipped
  /\ pag.resetVersion >= 1
  /\ pagIn.initialNumItems = 20
  /\ onPaginatedUpdate.subscribed >= 2
  /\ onPaginatedUpdate.unsubscribed = onPaginatedUpdate.subscribed

\* C26: every run of the paginated effect with non-skip arguments (after
\* reset(), an argument change or an options change) tears down the
\* subscription of the previous run, leaves results = [], error = undefined,
\* isLoadingFirstPage = true, isLoadingMore = canLoadMore = isExhausted =
\* false, isSkipped = false and no bound loadMore, and opens exactly one new
\* subscription, with the current arguments.
C26_RerunResubscribesFromFirstPage ==
  [][ pagLast'.op = "effectSubscribe" =>
        /\ pag' = [ results |-> <<>>, error |-> Undef, isLoadingFirstPage |-> TRUE,
                    isLoadingMore |-> FALSE, canLoadMore |-> FALSE,
                    isExhausted |-> FALSE, isSkipped |-> FALSE,
                    currentLoadMore |-> 0, resetVersion |-> pag.resetVersion ]
        /\ PagStatus(pag') = "pending"
        /\ onPaginatedUpdate'.subscribed = onPaginatedUpdate.subscribed + 1
        /\ onPaginatedUpdate'.open = {onPaginatedUpdate'.subscribed}
        /\ onPaginatedUpdate'.unsubscribed =
             onPaginatedUpdate.unsubscribed + Cardinality(onPaginatedUpdate.open)
        /\ onPaginatedUpdate'.args = pagIn.args
    ]_vars

\* C26 witness: the effect has just re-run after a reset() and opened the
\* third subscription, the first two being torn down.
C26_Witness ==
  /\ pagLast.op = "effectSubscribe"
  /\ pag.resetVersion >= 1
  /\ onPaginatedUpdate.subscribed = 3
  /\ onPaginatedUpdate.open = {3}
  /\ onPaginatedUpdate.unsubscribed = 2
  /\ pag.results = <<>> /\ pag.isLoadingFirstPage

\* C27: whenever the paginated effect has last run with the skip sentinel,
\* results = [], error = undefined, isLoadingFirstPage, isLoadingMore,
\* canLoadMore and isExhausted are all false, isSkipped = true, status is
\* skipped and no paginated subscription is open, whatever the state was
\* before that run.
C27_SkippedPaginatedStateIsClean ==
  /\ pagLast.op = "effectSkip" => pag.isSkipped
  /\ pag.isSkipped =>
       /\ pag.results = <<>>
       /\ pag.error = Undef
       /\ ~pag.isLoadingFirstPage /\ ~pag.isLoadingMore
       /\ ~pag.canLoadMore /\ ~pag.isExhausted
       /\ PagStatus(pag) = "skipped" /\ ~PagIsSuccess(pag) /\ ~PagIsError(pag)
       /\ onPaginatedUpdate.open = {}

\* C27 witness: the effect has just taken the skip branch after two
\* subscriptions had been opened and torn down.
C27_Witness ==
  /\ pagLast.op = "effectSkip"
  /\ pagIn.args = SkipToken
  /\ ~pagEffect.destroyed
  /\ onPaginatedUpdate.subscribed = 2
  /\ onPaginatedUpdate.unsubscribed = 2

\* C28: loadMore(n) delegates only to the loadMore function bound by a
\* page callback of the subscription that is open at the time of the call;
\* when there is none (skipped, no page received yet by the open
\* subscription, after teardown) it returns false and calls no function
\* bound by an earlier subscription.
C28_LoadMoreDelegatesToOpenSubscription ==
  pagLast.op = "loadMore" =>
    /\ pagLast.delegated \in onPaginatedUpdate.open \cup {0}
    /\ (pag.isSkipped \/ pagEffect.destroyed) => pagLast.delegated = 0

\* the page-status flags of the manager that are true
TrueFlags ==
  { f \in {"LoadingFirstPage", "LoadingMore", "CanLoadMore", "Exhausted"} :
      \/ f = "LoadingFirstPage" /\ pag.isLoadingFirstPage
      \/ f = "LoadingMore" /\ pag.isLoadingMore
      \/ f = "CanLoadMore" /\ pag.canLoadMore
      \/ f = "Exhausted" /\ pag.isExhausted }

\* C29: after every page callback exactly one of isLoadingFirstPage,
\* isLoadingMore, canLoadMore and isExhausted is true, the one matching the
\* status tag the callback was called with; at no moment are two of the
\* four flags true.
C29_OneFlagPerStatusTag ==
  /\ Cardinality(TrueFlags) <= 1
  /\ pagLast.op = "page" => TrueFlags = {pagLast.status}

\* C29 witness: a page callback tagged Exhausted has just fired, with the
\* results [A, B], on a manager that has been reset: only isExhausted is true.
C29_Witness ==
  /\ pagLast.op = "page" /\ pagLast.status = "Exhausted"
  /\ pag.isExhausted /\ ~pag.canLoadMore
  /\ pag.results = <<"A", "B">>
  /\ pag.resetVersion >= 1

\* C38: whenever canLoadMore() is true, a call of loadMore(n) is delegated
\* to a loadMore function bound by the open subscription and does not
\* return false for want of a binding; in particular after an error
\* callback, which sets canLoadMore = true to permit a retry.
C38_CanLoadMoreMeansLoadMoreDelegates ==
  (pagLast.op = "loadMore" /\ pag.canLoadMore /\ ~pagEffect.destroyed) =>
    /\ pagLast.delegated # 0
    /\ pagLast.delegated \in onPaginatedUpdate.open

(***************************************************************************)
(* Claims about convexAuthGuard (checked under SpecGuard)                  *)
(***************************************************************************)

\* C33: convexAuthGuard decides nothing while the status it is given is
\* loading; the first status it is given that is not loading decides:
\* true if and only if that status is authenticated, otherwise the UrlTree
\* of the configured login route (/login when none is configured); it
\* decides once and the result never changes afterwards.
C33_GuardDecidesOnceOnFirstLoadedStatus ==
  [][ /\ guard'.decisions <= 1
      /\ (guard'.decisions = 0) = (guard'.result = "none")
      /\ (guard.invoked /\ guard'.result # guard.result) =>
           /\ guard.result = "none"
           /\ AuthStatus(authConfig, sync) # "loading"
           /\ guard'.result =
                IF AuthStatus(authConfig, sync) = "authenticated" THEN "true"
                ELSE IF guard.loginRoute = "/auth/signin" THEN "/auth/signin"
                ELSE "/login"
      /\ ( /\ guard.invoked /\ guard.dirty /\ ~guard'.dirty
           /\ guard.result = "none"
           /\ AuthStatus(authConfig, sync) # "loading" ) =>
           guard'.result # "none"
    ]_vars

\* C33 witness: the guard, configured with /auth/signin, was given loading
\* and then unauthenticated and has redirected; the status has since become
\* authenticated and the decision stands.
C33_Witness ==
  /\ guard.result = "/auth/signin" /\ guard.decisions = 1
  /\ ~guard.dirty
  /\ AuthStatus(authConfig, sync) = "authenticated"

(***************************************************************************)
(* Claims about both managers (checked under SpecManagers)                 *)
(***************************************************************************)

\* C31: no query or paginated manager is stuck in an error state: a retry
\* (refetch(), reset() or an argument change) made with error set schedules
\* the effect, the run of the effect opens a new subscription, and a
\* successful callback (a result; a page past LoadingFirstPage) of the
\* open subscription leaves error = undefined and status success.
C31_RetryRecoversFromError ==
  [][ /\ (query.error # Undef /\ queryLast' \in {"refetch", "setArgs"}) =>
           queryEffect'.dirty
      /\ (pag.error # Undef /\ pagLast'.op \in {"reset", "setArgs"}) =>
           pagEffect'.dirty
      /\ queryLast' = "effectSubscribe" =>
           onUpdate'.open = {onUpdate.subscribed + 1}
      /\ pagLast'.op = "effectSubscribe" =>
           /\ onPaginatedUpdate'.open = {onPaginatedUpdate.subscribed + 1}
           /\ pag'.error = Undef
      /\ queryLast' = "data" =>
           /\ query'.error = Undef /\ ~QueryIsError(query')
           /\ QueryStatus(query') = "success"
      /\ (pagLast'.op = "page" /\ pagLast'.status # "LoadingFirstPage") =>
           /\ pag'.error = Undef /\ ~PagIsError(pag')
           /\ PagStatus(pag') = "success"
    ]_vars

\* C31 witness: the first paginated subscription reported an error, reset()
\* was called, and the second subscription has just delivered a page:
\* the error is gone and the status is success.
C31_Witness ==
  /\ pagLast.op = "page" /\ pagLast.status = "CanLoadMore"
  /\ pagLast.failed = 1
  /\ pag.resetVersion = 1
  /\ onPaginatedUpdate.open = {2}
  /\ pag.error = Undef /\ PagStatus(pag) = "success"

(***************************************************************************)
(* Claims about late callbacks (checked under SpecStale)                   *)
(***************************************************************************)

\* C34 as stated: a data or error callback of a torn-down query or
\* paginated subscription that is still delivered does not change the
\* manager's state.
C34_LateCallbackChangesNothing ==
  [][ /\ queryLast' \in {"staleData", "staleError"} => query' = query
      /\ pagLast'.op \in {"stalePage", "staleError"} => pag' = pag
    ]_vars

\* C34, amended: while no subscription is open, the state of the manager
\* is changed only by a run of the effect, by refetch() / reset(), or by a
\* callback of a torn-down subscription that the backend delivers all the
\* same; such a callback is applied like any other one (data, results and
\* error are written) and leaves isSkipped as it is.
C34_OnlyTeardownStopsCallbacks ==
  [][ /\ (onUpdate.open = {} /\ query' # query) =>
           queryLast' \in {"effectSkip", "effectSubscribe", "refetch",
                           "staleData", "staleError"}
      /\ (onPaginatedUpdate.open = {} /\ pag' # pag) =>
           pagLast'.op \in {"effectSkip", "effectSubscribe", "reset",
                            "stalePage", "staleError"}
      /\ queryLast' = "staleData" =>
           /\ query'.rawData \in Values /\ query'.error = Undef
           /\ query'.isSkipped = query.isSkipped
      /\ queryLast' = "staleError" =>
           /\ query'.error \in SubErrors /\ query'.rawData = query.rawData
           /\ query'.isSkipped = query.isSkipped
      /\ pagLast'.op = "stalePage" =>
           /\ pag'.results \in PageResults /\ pag'.error = Undef
           /\ pag'.currentLoadMore \in LastClosed(onPaginatedUpdate)
           /\ pag'.isSkipped = pag.isSkipped
      /\ pagLast'.op = "staleError" =>
           /\ pag'.error \in SubErrors /\ pag'.canLoadMore
           /\ pag'.isSkipped = pag.isSkipped
    ]_vars

\* C34 witness: a skipped query manager with no open subscription has been
\* given a result by the data callback of a torn-down subscription: it
\* holds data while isSkipped is true.
C34_Witness ==
  /\ queryLast = "staleData"
  /\ query.isSkipped /\ QuerySkips(queryIn)
  /\ onUpdate.open = {}
  /\ query.rawData \in Values

(***************************************************************************)
(* Claims about ConvexAuthSyncService / injectAuth (checked under SpecAuth)*)
(***************************************************************************)

\* the provider reports authenticated and not loading
ProviderAuthenticated(cfg) == cfg.isAuthenticated /\ ~cfg.isLoading

\* C5: isConvexAuthenticated is true only on the strength of a provider that
\* reports authenticated: once the effect has run for a provider that is
\* loading or logged out (and the provider has not changed since), nothing,
\* a confirmation callback included, makes isConvexAuthenticated true.
C5_ConfirmedOnlyWhileProviderAuthenticated ==
  ( /\ ~authEffect.dirty
    /\ ~authEffect.destroyed
    /\ ~ProviderAuthenticated(authConfig) ) =>
    sync.isConvexAuthenticated # True

C7_NoUnauthenticatedFlicker ==
  [][ ( /\ authConfig.isLoading
        /\ ~authEffect.dirty
        /\ ProviderAuthenticated(authConfig') ) =>
        AuthStatus(authConfig', sync') # "unauthenticated"
    ]_vars

\* C19: status() is 'authenticated' exactly in the states where the provider
\* reports isAuthenticated = true and isLoading = false and
\* isConvexAuthenticated is true; it is 'loading' exactly where the provider
\* is loading or isConvexAuthenticated is pending (null), and
\* 'unauthenticated' in every other state.
C19_StatusTable ==
  LET st == AuthStatus(authConfig, sync) IN
  /\ st \in {"loading", "authenticated", "unauthenticated"}
  /\ st = "authenticated" <=>
       ( /\ authConfig.isAuthenticated /\ ~authConfig.isLoading
         /\ sync.isConvexAuthenticated = True )
  /\ st = "loading" <=>
       (authConfig.isLoading \/ sync.isConvexAuthenticated = Null)

\* C19 witness: the provider still reports authenticated and loaded, and the
\* backend has answered false: status() is 'unauthenticated'.
C19_Witness ==
  /\ ProviderAuthenticated(authConfig)
  /\ sync.isConvexAuthenticated = False
  /\ authLast = "onChangeFalse"
  /\ AuthStatus(authConfig, sync) = "unauthenticated"

\* Convex holds a registration whose token the server has not confirmed
AwaitingConfirmation == convexAuth.registration # 0 /\ ~convexAuth.confirmed

C22_NoAuthWhileProviderUnauthenticated ==
  [][ /\ ( /\ ~authEffect'.dirty /\ ~authEffect'.destroyed
           /\ ~ProviderAuthenticated(authConfig') ) =>
           ~convexAuth'.hasAuth
      /\ convexAuth'.setAuthCalls # convexAuth.setAuthCalls =>
           (ProviderAuthenticated(authConfig) /\ authLast' = "effectAuthenticated")
    ]_vars

\* C23: at most one registration made by the bridge is active at any time,
\* the one of the latest convex.setAuth call, and once the injector has been
\* destroyed none is: the Convex client holds no token fetcher and no auth.
C23_RegistrationTornDown ==
  /\ convexAuth.registration \in {0, convexAuth.setAuthCalls}
  /\ authEffect.destroyed =>
       (convexAuth.registration = 0 /\ ~convexAuth.hasAuth)

\* the steps that write the signals of ConvexAuthSyncService
SyncWriters ==
  {"effectLoading", "effectUnauthenticated", "effectAuthenticated",
   "onChangeTrue", "onChangeFalse"}

C35_OnlyCurrentRegistrationConfirms ==
  [][ ( /\ authLast' \in {"onChangeTrue", "onChangeFalse"}
        /\ sync' # sync
        /\ ~authEffect.destroyed ) =>
        /\ authEffect.cleanup
        /\ convexAuth.registration = convexAuth.setAuthCalls
    ]_vars

(***************************************************************************)
(* Claims about the revisions that keep the teardown function in a         *)
(* variable (checked under SpecLegacy)                                     *)
(***************************************************************************)

\* C39: in the revisions of injectQuery and injectPaginatedQuery that keep
\* the teardown function in the variable unsubscribe, every subscription's
\* teardown function is called exactly once: there are never more teardown
\* calls than subscribe calls, and once the manager is disposed the two
\* counts are equal - also when a skip is followed by another change or by
\* disposal.
C39_TeardownCalledOncePerSubscription ==
  /\ onUpdate.unsubscribed <= onUpdate.subscribed
  /\ onPaginatedUpdate.unsubscribed <= onPaginatedUpdate.subscribed
  /\ queryEffect.destroyed => onUpdate.unsubscribed = onUpdate.subscribed
  /\ pagEffect.destroyed =>
       onPaginatedUpdate.unsubscribed = onPaginatedUpdate.subscribed

(***************************************************************************)
(* Claims about provideClerkAuth (checked under SpecClerk)                 *)
(***************************************************************************)

\* no effect is scheduled or waiting to be checked, and the bridge is alive
ClerkQuiescent ==
  /\ ~clerk.orgDirty /\ ~clerk.notified
  /\ ~authEffect.dirty /\ ~authEffect.destroyed

\* C40: with the Clerk integration, whenever orgId or orgRole changes
\* while the user stays signed in, the auth bridge's effect re-runs and
\* calls convex.setAuth again: once every scheduled effect has run, no org
\* change made while the user was signed in is left without a setAuth call
\* after it.
C40_OrgChangeRegistersFetcherAgain == ClerkQuiescent => ~clerk.orgPending

====
